---- MODULE Spec2Model ----
(***************************************************************************)
(* Admin-dashboard backend: identity gateway (Cognito), customer directory *)
(* and object storage gateway (S3), as implemented under src/api.          *)
(*                                                                         *)
(* Strings whose structure matters (object keys, prefixes, file names,     *)
(* customer ids, phone numbers) are sequences of tokens; "/" "." "_" "+"   *)
(* are tokens of their own, so prefix matching, path splitting and         *)
(* trimming are computed, not assumed.                                     *)
(***************************************************************************)
EXTENDS Integers, Sequences, FiniteSets, TLC

VARIABLES
    jwks,     \* CognitoAuth._jwks: [loaded, keys], loaded = FALSE for None
    store,    \* the S3 bucket: object key -> stored object
    clock,    \* datetime.utcnow(): [day, sec]
    users,    \* the Cognito user pool: sequence of accounts, sub = index
    procs,    \* in-flight create_customer requests (position and locals)
    hide_users,  \* the app client's PreventUserExistenceErrors setting
    last      \* the HTTP response of the request handled last

vars == <<jwks, store, clock, users, procs, hide_users, last>>

\* an absent or empty string value (Python None or ""): both are falsy
None == <<>>

\* ------------------------------------------------------------------ bounds

MaxObjects == 2      \* objects the bucket holds at most
MaxTicks == 2        \* clock readings after the first
MaxUsers == 2        \* accounts the pool holds at most
MaxGroups == 4       \* length of a group-membership claim
MaxRequests == 2     \* create_customer requests in flight

\* --------------------------------------------------------- string helpers

Last(s) == s[Len(s)]

IsPrefix(p, s) == Len(p) <= Len(s) /\ SubSeq(s, 1, Len(p)) = p

RECURSIVE Join(_, _)
\* sep.join(parts) for a sequence of token sequences
Join(parts, sep) ==
    IF parts = <<>> THEN <<>>
    ELSE IF Len(parts) = 1 THEN parts[1]
    ELSE parts[1] \o sep \o Join(Tail(parts), sep)

RECURSIVE Split(_, _)
\* s.split(tok): the components between occurrences of tok
Split(s, tok) ==
    IF \A i \in 1..Len(s) : s[i] # tok THEN <<s>>
    ELSE LET i == CHOOSE k \in 1..Len(s) :
                     s[k] = tok /\ \A j \in 1..(k-1) : s[j] # tok
         IN <<SubSeq(s, 1, i-1)>> \o Split(SubSeq(s, i+1, Len(s)), tok)

\* Byte order of the tokens used in keys (S3 lists keys in UTF-8 byte order).
TokOrder ==
    <<".", "/", "0", "0000", "1", "11", "2", "2026", "3", "4", "5", "6", "7",
      "8", "9", "_", "a", "b", "customers", "general", "jpg", "png">>

Rank(t) == CHOOSE i \in 1..Len(TokOrder) : TokOrder[i] = t

RECURSIVE KeyLess(_, _)
KeyLess(a, b) ==
    IF a = <<>> THEN b # <<>>
    ELSE IF b = <<>> THEN FALSE
    ELSE IF Head(a) = Head(b) THEN KeyLess(Tail(a), Tail(b))
    ELSE Rank(Head(a)) < Rank(Head(b))

RECURSIVE SortKeys(_)
\* the keys of a set in ascending byte order
SortKeys(S) ==
    IF S = {} THEN <<>>
    ELSE LET m == CHOOSE k \in S : \A o \in S \ {k} : KeyLess(k, o)
         IN <<m>> \o SortKeys(S \ {m})

Take(s, n) == SubSeq(s, 1, IF n < Len(s) THEN n ELSE Len(s))

\* ------------------------------------------------------------ configuration

\* settings.max_file_size
max_file_size == 10 * 1024 * 1024

\* settings.allowed_image_types
allowed_image_types == {"image/jpeg", "image/png", "image/webp", "image/gif"}

\* the key set served at the pool's jwks.json
KeySet == {"k1"}

\* ------------------------------------------------------------ bearer tokens

\* the "cognito:groups" claim: absent, or a list of group names
Missing == [present |-> FALSE, list |-> <<>>]
Groups(l) == [present |-> TRUE, list |-> l]

Claims(groups, cid, sub) ==
    [groups |-> groups, cid |-> cid, sub |-> sub, username |-> "user"]

GoodToken(c) ==
    [form |-> "jwt", kid |-> "k1", sig |-> TRUE, expired |-> FALSE, claims |-> c]

AdminClaims == Claims(Groups(<<"Admins">>), None, <<"2">>)
BothClaims == Claims(Groups(<<"Customers", "Admins">>), <<"1">>, <<"1">>)
Cust1Claims == Claims(Groups(<<"Customers">>), <<"1">>, <<"1">>)
Cust12Claims == Claims(Groups(<<"Customers">>), None, <<"1", "2">>)
NoGroupClaims == Claims(Missing, None, <<"1">>)
OtherClaims == Claims(Groups(<<"Staff">>), None, <<"1">>)

\* tokens that fail verification, one per failure cause
BadTokens ==
    { [GoodToken(AdminClaims) EXCEPT !.form = "garbage"],
      [GoodToken(AdminClaims) EXCEPT !.kid = "k9"],
      [GoodToken(AdminClaims) EXCEPT !.sig = FALSE],
      [GoodToken(AdminClaims) EXCEPT !.expired = TRUE] }

Tokens ==
    BadTokens \cup
    { GoodToken(c) : c \in {AdminClaims, BothClaims, Cust1Claims, Cust12Claims,
                            NoGroupClaims, OtherClaims} }

\* ------------------------------------------------------- token verification

Digits == <<"0", "1", "2", "3", "4", "5", "6", "7", "8", "9">>
Dig(n) == Digits[n + 1]

EmptyCache == [loaded |-> FALSE, keys |-> {}]

\* faulty variant: the key set is requested on every call
GetJwks_refetch(cache, fetchOk) ==
    IF fetchOk
    THEN [ok |-> TRUE, jwks |-> [loaded |-> TRUE, keys |-> KeySet], fetched |-> TRUE]
    ELSE [ok |-> FALSE, jwks |-> EmptyCache, fetched |-> TRUE]

\* CognitoAuth._get_jwks: fetch once, then serve the cache; fetched: requests.get
\* was called
GetJwks(cache, fetchOk) ==
    IF cache.loaded THEN [ok |-> TRUE, jwks |-> cache, fetched |-> FALSE]
    ELSE IF fetchOk
    THEN [ok |-> TRUE, jwks |-> [loaded |-> TRUE, keys |-> KeySet], fetched |-> TRUE]
    ELSE [ok |-> FALSE, jwks |-> cache, fetched |-> TRUE]

Denied(status, detail, cache) ==
    [ok |-> FALSE, status |-> status, detail |-> detail, jwks |-> cache,
     claims |-> NoGroupClaims]

\* faulty variant: the expiry of the token is not checked
verify_token_unexpired(tok, cache, fetchOk) ==
    IF tok.form # "jwt" THEN Denied(401, "Invalid token", cache)
    ELSE LET g == GetJwks(cache, fetchOk) IN
         IF ~g.ok THEN Denied(401, "Token verification failed", g.jwks)
         ELSE IF tok.kid \notin g.jwks.keys
              THEN Denied(401, "Token verification failed", g.jwks)
         ELSE IF ~tok.sig
              THEN Denied(401, "Token verification failed", g.jwks)
         ELSE [ok |-> TRUE, status |-> 200, detail |-> "", jwks |-> g.jwks,
               claims |-> tok.claims]

\* CognitoAuth.verify_token: claims, or HTTPException(401)
verify_token(tok, cache, fetchOk) ==
    IF tok.form # "jwt" THEN Denied(401, "Invalid token", cache)
    ELSE LET g == GetJwks(cache, fetchOk) IN
         IF ~g.ok THEN Denied(401, "Token verification failed", g.jwks)
         ELSE IF tok.kid \notin g.jwks.keys
              THEN Denied(401, "Token verification failed", g.jwks)
         ELSE IF ~tok.sig
              THEN Denied(401, "Token verification failed", g.jwks)
         ELSE IF tok.expired THEN Denied(401, "Invalid token", g.jwks)
         ELSE [ok |-> TRUE, status |-> 200, detail |-> "", jwks |-> g.jwks,
               claims |-> tok.claims]

\* get_current_user
get_current_user(tok, cache, fetchOk) == verify_token(tok, cache, fetchOk)

\* user.get("cognito:groups", [])
GroupList(user) == IF user.groups.present THEN user.groups.list ELSE <<>>

In(x, l) == \E i \in 1..Len(l) : l[i] = x

\* faulty variant: the Customers group is looked for first
get_user_role_customers_first(user) ==
    IF In("Customers", GroupList(user)) THEN "customer"
    ELSE IF In("Admins", GroupList(user)) THEN "admin"
    ELSE "unknown"

\* get_user_role
get_user_role(user) ==
    IF In("Admins", GroupList(user)) THEN "admin"
    ELSE IF In("Customers", GroupList(user)) THEN "customer"
    ELSE "unknown"

\* faulty variant: any group membership admits the caller
require_admin_any_group(user) == GroupList(user) # <<>>

\* require_admin: TRUE when the caller is admitted, else 403
require_admin(user) == In("Admins", GroupList(user))

\* get_customer_id
get_customer_id(user) == IF user.cid # None THEN user.cid ELSE user.sub

\* ------------------------------------------------------------- S3 service

\* HTTP response of a handler.  calls: the provider calls it made.
\* a welcome notification handed to the email provider
Mail(to, password) == [to |-> to, password |-> password]
NoMail == Mail("", "")

Resp(op, status, detail, v, calls, req, body) ==
    [op |-> op, status |-> status, detail |-> detail, verified |-> v.ok,
     claims |-> v.claims, calls |-> calls, req |-> req, body |-> body,
     mail |-> NoMail]

NoBody == [none |-> TRUE]
NoCaller == [ok |-> FALSE, claims |-> NoGroupClaims]

\* now.strftime("%Y/%m/%d")
DatePrefix(now) == <<"2026", "/", "11", "/", Dig(now.day)>>

\* now.strftime("%Y%m%d_%H%M%S")
Timestamp(now) == <<"2026", "11", Dig(now.day), "_", "0000", Dig(now.sec)>>

\* Path(filename).name: the last component that is neither empty nor "."
PathName(filename) ==
    LET comps == SelectSeq(Split(filename, "/"),
                           LAMBDA c : c # <<>> /\ c # <<".">>)
    IN IF comps = <<>> THEN <<>> ELSE Last(comps)

\* safe_filename.rsplit('.', 1)
RSplitDot(name) ==
    IF \A i \in 1..Len(name) : name[i] # "." THEN <<name>>
    ELSE LET i == CHOOSE k \in 1..Len(name) :
                     name[k] = "." /\ \A j \in (k+1)..Len(name) : name[j] # "."
         IN <<SubSeq(name, 1, i-1), SubSeq(name, i+1, Len(name))>>

\* faulty variant: the submitted filename is used as it came, directories
\* included
generate_s3_key_unsanitized(filename, customer_id, now) ==
    LET name_parts == RSplitDot(filename)
        new_filename ==
            IF Len(name_parts) = 2
            THEN name_parts[1] \o <<"_">> \o Timestamp(now) \o <<".">> \o name_parts[2]
            ELSE filename \o <<"_">> \o Timestamp(now)
    IN IF customer_id # None
       THEN <<"customers", "/">> \o customer_id \o <<"/">> \o DatePrefix(now)
                \o <<"/">> \o new_filename
       ELSE <<"general", "/">> \o DatePrefix(now) \o <<"/">> \o new_filename

\* S3Service._generate_s3_key
generate_s3_key(filename, customer_id, now) ==
    LET safe_filename == PathName(filename)
        name_parts == RSplitDot(safe_filename)
        new_filename ==
            IF Len(name_parts) = 2
            THEN name_parts[1] \o <<"_">> \o Timestamp(now) \o <<".">> \o name_parts[2]
            ELSE safe_filename \o <<"_">> \o Timestamp(now)
    IN IF customer_id # None
       THEN <<"customers", "/">> \o customer_id \o <<"/">> \o DatePrefix(now)
                \o <<"/">> \o new_filename
       ELSE <<"general", "/">> \o DatePrefix(now) \o <<"/">> \o new_filename

\* faulty variant: only the content type is checked
validate_image_type_only(file) ==
    IF file.content_type \notin allowed_image_types THEN "Invalid file type"
    ELSE ""

\* S3Service._validate_image: "" when the file passes, else the 400 detail
validate_image(file) ==
    IF file.content_type \notin allowed_image_types THEN "Invalid file type"
    ELSE IF file.size_known /\ file.size > 0 /\ file.size > max_file_size
         THEN "File too large"
    ELSE ""

\* the folder reported in the upload result
FolderOf(customer_id) ==
    IF customer_id # None THEN <<"customers", "/">> \o customer_id
    ELSE <<"general">>

\* S3Service.upload_image
s3_upload_image(st, file, customer_id, username, now, putOk) ==
    IF validate_image(file) # ""
    THEN [status |-> 400, detail |-> validate_image(file), store |-> st,
          calls |-> {}, body |-> NoBody]
    ELSE LET s3_key == generate_s3_key(file.filename, customer_id, now)
             obj == [size |-> file.size,
                     content_type |-> file.content_type,
                     last_modified |-> now,
                     metadata |-> [original_filename |-> file.filename,
                                   uploaded_by |-> username,
                                   customer_id |-> customer_id]]
         IN IF ~putOk
            THEN [status |-> 500, detail |-> "Failed to upload image",
                  store |-> st, calls |-> {"put_object"}, body |-> NoBody]
            ELSE [status |-> 201, detail |-> "",
                  store |-> [k \in DOMAIN st \cup {s3_key} |->
                                IF k = s3_key THEN obj ELSE st[k]],
                  calls |-> {"put_object"},
                  body |-> [key |-> s3_key, size |-> file.size,
                            content_type |-> file.content_type,
                            customer_id |-> customer_id,
                            folder |-> FolderOf(customer_id)]]

\* list_objects_v2(Prefix, MaxKeys): the first MaxKeys keys with the prefix
ListObjectsV2(st, prefix, max_keys) ==
    Take(SortKeys({k \in DOMAIN st : IsPrefix(prefix, k)}), max_keys)

\* faulty variant: the content type is never read from head_object
ImageInfo_unknown_type(st, k) ==
    [key |-> k, size |-> st[k].size, last_modified |-> st[k].last_modified,
     content_type |-> "unknown"]

\* the image_info of one listed object
ImageInfo(st, k) ==
    [key |-> k, size |-> st[k].size, last_modified |-> st[k].last_modified,
     content_type |-> st[k].content_type]

\* S3Service.list_images; skip: the keys whose head_object fails
s3_list_images(st, prefix, max_keys, skip) ==
    LET contents == ListObjectsV2(st, prefix, max_keys)
        kept == SelectSeq(contents, LAMBDA k : k \notin skip)
    IN [i \in 1..Len(kept) |-> ImageInfo(st, kept[i])]

\* a.last_modified later than b.last_modified
Newer(a, b) ==
    \/ a.last_modified.day > b.last_modified.day
    \/ /\ a.last_modified.day = b.last_modified.day
       /\ a.last_modified.sec > b.last_modified.sec

RECURSIVE InsertDesc(_, _)
InsertDesc(sorted, x) ==
    IF sorted = <<>> THEN <<x>>
    ELSE IF Newer(x, Head(sorted)) THEN <<x>> \o sorted
    ELSE <<Head(sorted)>> \o InsertDesc(Tail(sorted), x)

RECURSIVE SortNewestFirst(_)
\* images.sort(key=last_modified, reverse=True): stable
SortNewestFirst(images) ==
    IF images = <<>> THEN <<>>
    ELSE InsertDesc(SortNewestFirst(SubSeq(images, 1, Len(images) - 1)),
                    Last(images))

\* faulty variant: the customer prefix lacks its closing "/"
s3_list_images_for_customer_open_prefix(st, customer_id, max_keys, skip) ==
    LET customer_prefix == <<"customers", "/">> \o customer_id
        customer_images == s3_list_images(st, customer_prefix, max_keys, skip)
        general_images == s3_list_images(st, <<"general", "/">>, max_keys, skip)
    IN SortNewestFirst(customer_images \o general_images)

\* S3Service.list_images_for_customer
s3_list_images_for_customer(st, customer_id, max_keys, skip) ==
    LET customer_prefix == <<"customers", "/">> \o customer_id \o <<"/">>
        customer_images == s3_list_images(st, customer_prefix, max_keys, skip)
        general_images == s3_list_images(st, <<"general", "/">>, max_keys, skip)
    IN SortNewestFirst(customer_images \o general_images)

\* faulty variant: the object is left in the bucket
s3_delete_image_kept(st, s3_key) == st

\* S3Service.delete_image
s3_delete_image(st, s3_key) == [k \in DOMAIN st \ {s3_key} |-> st[k]]

\* ------------------------------------------------------------ image routes

\* routers/images.py upload_image
upload_image(tok, fetchOk, file, customer_id, putOk) ==
    LET v == get_current_user(tok, jwks, fetchOk)
        user_role == get_user_role(v.claims)
        req == [file |-> file, customer_id |-> customer_id]
    IN IF ~v.ok
       THEN [store |-> store, jwks |-> v.jwks,
             resp |-> Resp("upload", v.status, v.detail, v, {}, req, NoBody)]
       ELSE IF user_role = "customer"
       THEN [store |-> store, jwks |-> v.jwks,
             resp |-> Resp("upload", 403, "Customers cannot upload files",
                           v, {}, req, NoBody)]
       ELSE IF user_role # "admin"
       THEN [store |-> store, jwks |-> v.jwks,
             resp |-> Resp("upload", 403, "Insufficient permissions to upload files",
                           v, {}, req, NoBody)]
       ELSE LET r == s3_upload_image(store, file, customer_id,
                                     v.claims.username, clock, putOk)
            IN [store |-> r.store, jwks |-> v.jwks,
                resp |-> Resp("upload", r.status, r.detail, v, r.calls, req, r.body)]

\* routers/images.py list_images
list_images(tok, fetchOk, prefix, max_keys, listOk, skip) ==
    LET v == get_current_user(tok, jwks, fetchOk)
        user_role == get_user_role(v.claims)
        user_customer_id == get_customer_id(v.claims)
        req == [prefix |-> prefix, max_keys |-> max_keys, skip |-> skip]
        images == IF user_role = "admin"
                  THEN s3_list_images(store, prefix, max_keys, skip)
                  ELSE s3_list_images_for_customer(store, user_customer_id,
                                                   max_keys, skip)
    IN IF ~v.ok
       THEN [jwks |-> v.jwks,
             resp |-> Resp("list", v.status, v.detail, v, {}, req, NoBody)]
       ELSE IF user_role \notin {"admin", "customer"}
       THEN [jwks |-> v.jwks,
             resp |-> Resp("list", 403, "Insufficient permissions to list files",
                           v, {}, req, NoBody)]
       ELSE IF ~listOk
       THEN [jwks |-> v.jwks,
             resp |-> Resp("list", 500, "Failed to list images", v,
                           {"list_objects_v2"}, req, NoBody)]
       ELSE [jwks |-> v.jwks,
             resp |-> Resp("list", 200, "", v, {"list_objects_v2"}, req,
                           [count |-> Len(images), images |-> images])]

\* routers/images.py delete_image
delete_image(tok, fetchOk, key, delOk) ==
    LET v == get_current_user(tok, jwks, fetchOk)
        req == [key |-> key, delOk |-> delOk]
    IN IF ~v.ok
       THEN [store |-> store, jwks |-> v.jwks,
             resp |-> Resp("delete", v.status, v.detail, v, {}, req, NoBody)]
       ELSE IF ~require_admin(v.claims)
       THEN [store |-> store, jwks |-> v.jwks,
             resp |-> Resp("delete", 403, "Admin access required", v, {}, req, NoBody)]
       ELSE IF ~delOk
       THEN [store |-> store, jwks |-> v.jwks,
             resp |-> Resp("delete", 500, "Failed to delete image", v,
                           {"delete_object"}, req, NoBody)]
       ELSE [store |-> s3_delete_image(store, key), jwks |-> v.jwks,
             resp |-> Resp("delete", 200, "", v, {"delete_object"}, req,
                           [success |-> TRUE])]

\* ------------------------------------------------------------ the user pool

\* the sub of the i-th account of the pool
SubOf(i) == <<Dig(i)>>

Account(email, name, phone, password, status, groups) ==
    [Username |-> email, password |-> password, status |-> status,
     enabled |-> TRUE, groups |-> groups, name |-> name, phone |-> phone,
     phone_verified |-> phone # None, customer_id |-> None]

\* the accounts whose login name is username
ByUsername(us, username) == {i \in 1..Len(us) : us[i].Username = username}

Lookup(us, username) == CHOOSE i \in ByUsername(us, username) : TRUE

ProviderOk(us) == [ok |-> TRUE, code |-> "", users |-> us]
ProviderError(us, code) == [ok |-> FALSE, code |-> code, users |-> us]

\* admin_create_user(Username, UserAttributes, TemporaryPassword): the pool
\* refuses a login name it already holds
admin_create_user(us, email, name, phone, temporary_password) ==
    IF ByUsername(us, email) # {}
    THEN ProviderError(us, "UsernameExistsException")
    ELSE ProviderOk(Append(us, Account(email, name, phone, temporary_password,
                                       "FORCE_CHANGE_PASSWORD", {})))

\* admin_update_user_attributes(Username, [custom:customer_id])
admin_set_customer_id(us, username, customer_id) ==
    IF ByUsername(us, username) = {}
    THEN ProviderError(us, "UserNotFoundException")
    ELSE ProviderOk([us EXCEPT ![Lookup(us, username)].customer_id = customer_id])

\* faulty variant: the password is set with Permanent=True
admin_set_user_password_permanent(us, username, password) ==
    IF ByUsername(us, username) = {}
    THEN ProviderError(us, "UserNotFoundException")
    ELSE ProviderOk([us EXCEPT ![Lookup(us, username)].password = password,
                               ![Lookup(us, username)].status = "CONFIRMED"])

\* admin_set_user_password(Username, Password, Permanent=False)
admin_set_user_password(us, username, password) ==
    IF ByUsername(us, username) = {}
    THEN ProviderError(us, "UserNotFoundException")
    ELSE ProviderOk([us EXCEPT ![Lookup(us, username)].password = password,
                               ![Lookup(us, username)].status = "FORCE_CHANGE_PASSWORD"])

\* admin_add_user_to_group(Username, GroupName)
admin_add_user_to_group(us, username, group) ==
    IF ByUsername(us, username) = {}
    THEN ProviderError(us, "UserNotFoundException")
    ELSE ProviderOk([us EXCEPT ![Lookup(us, username)].groups = @ \cup {group}])

\* the provider call made at a position fails with err when err is given
Call(err, us, result) == IF err # "" THEN ProviderError(us, err) ELSE result

\* ------------------------------------------------- temporary passwords

uppercase ==
    <<"A", "B", "C", "D", "E", "F", "G", "H", "I", "J", "K", "L", "M",
      "N", "O", "P", "Q", "R", "S", "T", "U", "V", "W", "X", "Y", "Z">>
lowercase ==
    <<"a", "b", "c", "d", "e", "f", "g", "h", "i", "j", "k", "l", "m",
      "n", "o", "p", "q", "r", "s", "t", "u", "v", "w", "x", "y", "z">>
special == <<"!", "@", "#", "$", "%", "^", "&", "*">>
all_chars == uppercase \o lowercase \o Digits \o special

\* range(12): the characters drawn from all_chars after the four required
fill_count == 12

\* random.shuffle: for i from len(x)-1 down to 1, x[i] and x[j] change
\* places, j = js[i] drawn from 0..i (positions counted from 0)
RECURSIVE shuffle_from(_, _, _)
shuffle_from(x, js, i) ==
    IF i < 1 THEN x
    ELSE shuffle_from([x EXCEPT ![i + 1] = x[js[i] + 1], ![js[i] + 1] = x[i + 1]],
                      js, i - 1)

shuffle(x, js) == shuffle_from(x, js, Len(x) - 1)

\* faulty variant: no symbol is required, one more character is drawn from
\* all_chars instead
generate_temporary_password_no_symbol(pick, fill, js) ==
    shuffle(<<uppercase[pick[1]], lowercase[pick[2]], Digits[pick[3]],
              all_chars[pick[4]]>>
            \o [i \in 1..fill_count |-> all_chars[fill[i]]], js)

\* CognitoAuth._generate_temporary_password.  pick, fill: the indices
\* secrets.choice draws; js: the positions the shuffle draws.
generate_temporary_password(pick, fill, js) ==
    shuffle(<<uppercase[pick[1]], lowercase[pick[2]], Digits[pick[3]],
              special[pick[4]]>>
            \o [i \in 1..fill_count |-> all_chars[fill[i]]], js)

\* ------------------------------------------------------- phone validation

IsSpace(t) == t = " "

RECURSIVE LStrip(_)
LStrip(s) == IF s # <<>> /\ IsSpace(Head(s)) THEN LStrip(Tail(s)) ELSE s

RECURSIVE RStrip(_)
RStrip(s) ==
    IF s # <<>> /\ IsSpace(Last(s)) THEN RStrip(SubSeq(s, 1, Len(s) - 1)) ELSE s

\* str.strip()
Strip(s) == RStrip(LStrip(s))

\* characters outside 0-9 that str.isdigit() takes for digits, named by their
\* code points: ARABIC-INDIC DIGIT THREE and SUPERSCRIPT TWO
OtherDigits == <<"u0663", "u00b2">>

\* str.isdigit(): non-empty, and every character has the Unicode digit
\* property
IsDigit(s) ==
    s # <<>> /\ \A i \in 1..Len(s) : In(s[i], Digits) \/ In(s[i], OtherDigits)

\* the E.164 check of create_customer: "" when accepted, else the 400 detail
phone_error(phone_number) ==
    IF phone_number = <<>> \/ phone_number[1] # "+"
    THEN "Phone number must be in E.164 format"
    ELSE IF ~IsDigit(Tail(phone_number)) \/ Len(phone_number) < 8
            \/ Len(phone_number) > 16
    THEN "Invalid phone number format"
    ELSE ""

\* ------------------------------------------------------- customer directory

\* faulty variant: UsernameExistsException has no branch of its own
create_error_status_no_conflict(code) ==
    IF code = "InvalidPasswordException" THEN 400
    ELSE IF code = "InvalidParameterException" THEN 400
    ELSE 500

\* the error mapping of create_customer
create_error_status(code) ==
    IF code = "UsernameExistsException" THEN 409
    ELSE IF code = "InvalidPasswordException" THEN 400
    ELSE IF code = "InvalidParameterException" THEN 400
    ELSE 500

Finished(p, status, detail) ==
    [p EXCEPT !.pc = "done", !.status = status, !.detail = detail]

\* faulty variant: a provider error is logged and the request carries on
\* to its success return
Failed_swallowed(p, code) == Finished(p, 201, "")

\* except ClientError of create_customer: the mapped HTTPException
Failed(p, code) == Finished(p, create_error_status(code), code)

\* a create_customer request about to start
NewRequest(email, name, phone_number, temporary_password) ==
    [pc |-> "admin_create_user", email |-> email, name |-> name,
     phone |-> phone_number, temp |-> temporary_password, sub |-> 0,
     status |-> 0, detail |-> "", calls |-> {}, mailed |-> NoMail]

\* faulty variant: a failed send propagates out of create_customer
send_welcome_unguarded(p, mail) ==
    IF mail = "sent"
    THEN [Finished(p, 201, "") EXCEPT !.calls = @ \cup {"send_email"},
                                      !.mailed = Mail(p.email, p.temp)]
    ELSE [Finished(p, 500, "Failed to create customer") EXCEPT
              !.calls = @ \cup {"send_email"}]

\* the try/except around send_welcome_email in create_customer, and the
\* return after it: any exception of the send is caught and logged
send_welcome_guarded(p, mail) ==
    [Finished(p, 201, "") EXCEPT
        !.calls = @ \cup {"send_email"},
        !.mailed = IF mail = "sent" THEN Mail(p.email, p.temp) ELSE NoMail]

\* CognitoAuth.create_customer from position p.pc up to and including its
\* next provider call.  err: the error that call raises ("" for none);
\* mail: the outcome of send_welcome_email.
create_customer_step(us, p, err, mail) ==
    IF p.pc = "admin_create_user"
    THEN LET phone == IF p.phone # None THEN Strip(p.phone) ELSE p.phone IN
         IF p.phone # None /\ phone_error(phone) # ""
         THEN [users |-> us, proc |-> Finished(p, 400, phone_error(phone))]
         ELSE LET r == Call(err, us, admin_create_user(us, p.email, p.name,
                                                       phone, p.temp))
                  q == [p EXCEPT !.calls = @ \cup {"admin_create_user"},
                                 !.phone = phone]
              IN IF ~r.ok THEN [users |-> r.users, proc |-> Failed(q, r.code)]
                 ELSE [users |-> r.users,
                       proc |-> [q EXCEPT !.pc = "admin_update_user_attributes",
                                          !.sub = Len(r.users)]]
    ELSE IF p.pc = "admin_update_user_attributes"
    THEN LET r == Call(err, us, admin_set_customer_id(us, p.email, SubOf(p.sub)))
             q == [p EXCEPT !.calls = @ \cup {"admin_update_user_attributes"}]
         IN IF ~r.ok THEN [users |-> r.users, proc |-> Failed(q, r.code)]
            ELSE [users |-> r.users,
                  proc |-> [q EXCEPT !.pc = "admin_set_user_password"]]
    ELSE IF p.pc = "admin_set_user_password"
    THEN LET r == Call(err, us, admin_set_user_password(us, p.email, p.temp))
             q == [p EXCEPT !.calls = @ \cup {"admin_set_user_password"}]
         IN IF ~r.ok THEN [users |-> r.users, proc |-> Failed(q, r.code)]
            ELSE [users |-> r.users,
                  proc |-> [q EXCEPT !.pc = "admin_add_user_to_group"]]
    ELSE IF p.pc = "admin_add_user_to_group"
    THEN LET r == Call(err, us, admin_add_user_to_group(us, p.email, "Customers"))
             q == [p EXCEPT !.calls = @ \cup {"admin_add_user_to_group"}]
         IN IF ~r.ok THEN [users |-> r.users, proc |-> Failed(q, r.code)]
            ELSE [users |-> r.users,
                  proc |-> [q EXCEPT !.pc = "send_welcome_email"]]
    ELSE IF p.pc = "send_welcome_email"
    THEN [users |-> us, proc |-> send_welcome_guarded(p, mail)]
    ELSE [users |-> us, proc |-> p]

\* the body create_customer returns
create_customer_body(p) ==
    IF p.status # 201 THEN NoBody
    ELSE [customer_id |-> SubOf(p.sub), email |-> p.email, name |-> p.name,
          phone_number |-> p.phone,
          customer_folder |-> <<"customers", "/">> \o SubOf(p.sub),
          enabled |-> TRUE, user_status |-> "FORCE_CHANGE_PASSWORD",
          temporary_password |-> p.temp]

NoFault == [at |-> "", code |-> ""]

ErrAt(fault, pc) == IF fault.at = pc THEN fault.code ELSE ""

RECURSIVE RunCreate(_, _, _, _)
\* CognitoAuth.create_customer run to its return; fault: the call that fails
RunCreate(us, p, fault, mail) ==
    IF p.pc = "done" THEN [users |-> us, proc |-> p]
    ELSE LET n == create_customer_step(us, p, ErrAt(fault, p.pc), mail)
         IN RunCreate(n.users, n.proc, fault, mail)

create_customer(us, email, name, phone_number, temporary_password, fault, mail) ==
    RunCreate(us, NewRequest(email, name, phone_number, temporary_password),
              fault, mail)

\* list_users(Filter='sub = "<customer_id>"', Limit=1)
BySub(us, customer_id) == {i \in 1..Len(us) : SubOf(i) = customer_id}

Out(us, status, detail, calls, mailed, body) ==
    [users |-> us, status |-> status, detail |-> detail, calls |-> calls,
     mailed |-> mailed, body |-> body]

\* CognitoAuth.get_customer: the profile, or 404 / 500
get_customer(us, customer_id, err) ==
    IF err # "" THEN Out(us, 500, "Failed to get customer", {"list_users"}, NoMail, NoBody)
    ELSE IF BySub(us, customer_id) = {}
    THEN Out(us, 404, "Customer not found", {"list_users"}, NoMail, NoBody)
    ELSE LET user == us[CHOOSE i \in BySub(us, customer_id) : TRUE]
         IN Out(us, 200, "", {"list_users"}, NoMail,
                [customer_id |-> customer_id, email |-> user.Username,
                 name |-> user.name, phone_number |-> user.phone,
                 customer_folder |-> <<"customers", "/">> \o customer_id,
                 enabled |-> user.enabled, user_status |-> user.status])

Profile(us, i) ==
    [customer_id |-> SubOf(i), email |-> us[i].Username, name |-> us[i].name,
     phone_number |-> us[i].phone,
     customer_folder |-> <<"customers", "/">> \o SubOf(i),
     enabled |-> us[i].enabled, user_status |-> us[i].status]

\* CognitoAuth.list_customers: list_users_in_group('Customers', Limit)
list_customers(us, limit, err) ==
    IF err # ""
    THEN Out(us, 500, "Failed to list customers", {"list_users_in_group"},
             NoMail, NoBody)
    ELSE LET members == SelectSeq([i \in 1..Len(us) |-> i],
                                  LAMBDA i : "Customers" \in us[i].groups)
             page == Take(members, limit)
             customers == [k \in 1..Len(page) |-> Profile(us, page[k])]
         IN Out(us, 200, "", {"list_users_in_group"}, NoMail,
                [count |-> Len(customers), customers |-> customers])

\* an optional request field: absent (None), or given with a value
NotGiven == [given |-> FALSE, value |-> <<>>]
Given(v) == [given |-> TRUE, value |-> v]

\* the E.164 check of update_customer: an empty number passes it
update_phone_error(phone_number) ==
    IF phone_number # <<>> /\ phone_number[1] # "+"
    THEN "Phone number must be in E.164 format"
    ELSE IF phone_number # <<>>
            /\ (~IsDigit(Tail(phone_number)) \/ Len(phone_number) < 8
                    \/ Len(phone_number) > 16)
    THEN "Invalid phone number format"
    ELSE ""

\* faulty variant: name and phone_number are written whether given or not
update_user_attributes_all(user, name, phone_number) ==
    [user EXCEPT !.name = name.value, !.phone = phone_number.value,
                 !.phone_verified = TRUE]

\* admin_update_user_attributes with the user_attributes update_customer
\* collects: name when given; phone_number and phone_number_verified = "true"
\* when a phone number is given
update_user_attributes(user, name, phone_number) ==
    [user EXCEPT !.name = IF name.given THEN name.value ELSE @,
                 !.phone = IF phone_number.given THEN phone_number.value ELSE @,
                 !.phone_verified = IF phone_number.given THEN TRUE ELSE @]

\* CognitoAuth.update_customer.  fault: the provider call that fails
update_customer(us, customer_id, name, phone_number, enabled, fault) ==
    LET phone == Strip(phone_number.value)
        stripped == IF phone_number.given THEN Given(phone) ELSE NotGiven
        customer == get_customer(us, customer_id, ErrAt(fault, "list_users"))
    IN
    IF phone_number.given /\ update_phone_error(phone) # ""
    THEN Out(us, 400, update_phone_error(phone), {}, NoMail, NoBody)
    ELSE IF customer.status # 200 THEN customer
    ELSE
    LET i == CHOOSE k \in BySub(us, customer_id) : TRUE
        c1 == {"list_users"}
        attrs == name.given \/ phone_number.given
        c2 == IF attrs THEN c1 \cup {"admin_update_user_attributes"} ELSE c1
        us2 == IF ~attrs THEN us
               ELSE [us EXCEPT ![i] = update_user_attributes(@, name, stripped)]
        c3 == IF enabled.given THEN c2 \cup {"admin_enable_user"} ELSE c2
        us3 == IF enabled.given THEN [us2 EXCEPT ![i].enabled = enabled.value]
               ELSE us2
        after == get_customer(us3, customer_id, ErrAt(fault, "list_users_again"))
    IN IF attrs /\ ErrAt(fault, "admin_update_user_attributes") # ""
       THEN Out(us, 500, "Failed to update customer", c2, NoMail, NoBody)
       ELSE IF enabled.given /\ ErrAt(fault, "admin_enable_user") # ""
       THEN Out(us2, 500, "Failed to update customer", c3, NoMail, NoBody)
       ELSE Out(us3, after.status, after.detail, c3, NoMail, after.body)

\* the error mapping of resend_customer_welcome
resend_error_status(code) ==
    IF code = "UserNotFoundException" THEN 404 ELSE 500

\* faulty variant: only the CONFIRMED status is refused
resend_status_error_confirmed_only(user_status) ==
    IF user_status = "CONFIRMED"
    THEN "Customer has already set their own password"
    ELSE ""

\* the UserStatus checks of resend_customer_welcome: "" when the account is
\* eligible, else the 400 detail
resend_status_error(user_status) ==
    IF user_status = "CONFIRMED"
    THEN "Customer has already set their own password"
    ELSE IF user_status \notin {"FORCE_CHANGE_PASSWORD", "RESET_REQUIRED"}
    THEN "User status is not eligible"
    ELSE ""

\* CognitoAuth.resend_customer_welcome.  fault: the provider call that fails;
\* mail: the outcome of send_welcome_email ("sent" or "rejected").
resend_customer_welcome(us, customer_id, new_temporary_password, fault, mail) ==
    LET customer == get_customer(us, customer_id, ErrAt(fault, "list_users")) IN
    IF customer.status # 200 THEN customer
    ELSE
    LET username == customer.body.email
        c1 == {"list_users", "admin_get_user"}
        c2 == c1 \cup {"admin_set_user_password"}
        c3 == c2 \cup {"send_email"}
        got == Call(ErrAt(fault, "admin_get_user"), us,
                    IF ByUsername(us, username) = {}
                    THEN ProviderError(us, "UserNotFoundException")
                    ELSE ProviderOk(us))
        user_status == us[Lookup(us, username)].status
        set == Call(ErrAt(fault, "admin_set_user_password"), us,
                    admin_set_user_password(us, username, new_temporary_password))
    IN IF ~got.ok
       THEN Out(us, resend_error_status(got.code), got.code, c1, NoMail, NoBody)
       ELSE IF resend_status_error(user_status) # ""
       THEN Out(us, 400, resend_status_error(user_status), c1, NoMail, NoBody)
       ELSE IF ~set.ok
       THEN Out(set.users, resend_error_status(set.code), set.code, c2, NoMail, NoBody)
       ELSE IF mail # "sent"
       THEN \* the plain Exception of the email service is not caught
            Out(set.users, 500, "Internal Server Error", c3, NoMail, NoBody)
       ELSE Out(set.users, 200, "", c3, Mail(username, new_temporary_password),
                [customer_id |-> customer_id, email |-> username,
                 name |-> customer.body.name,
                 temporary_password |-> new_temporary_password])

\* ------------------------------------------------------- identity gateway

\* faulty variant: a disabled account is let in
initiate_auth_disabled_allowed(us, username, password, prevent) ==
    IF ByUsername(us, username) = {}
    THEN [kind |-> "error",
          code |-> IF prevent THEN "NotAuthorizedException"
                   ELSE "UserNotFoundException"]
    ELSE LET user == us[Lookup(us, username)] IN
         IF user.password # password
         THEN [kind |-> "error", code |-> "NotAuthorizedException"]
         ELSE IF user.status = "FORCE_CHANGE_PASSWORD"
         THEN [kind |-> "challenge", code |-> "NEW_PASSWORD_REQUIRED"]
         ELSE [kind |-> "tokens", code |-> ""]

\* initiate_auth(USER_PASSWORD_AUTH): tokens, a challenge, or an error.
\* prevent: the app client's PreventUserExistenceErrors setting.
initiate_auth(us, username, password, prevent) ==
    IF ByUsername(us, username) = {}
    THEN [kind |-> "error",
          code |-> IF prevent THEN "NotAuthorizedException"
                   ELSE "UserNotFoundException"]
    ELSE LET user == us[Lookup(us, username)] IN
         IF ~user.enabled \/ user.password # password
         THEN [kind |-> "error", code |-> "NotAuthorizedException"]
         ELSE IF user.status = "FORCE_CHANGE_PASSWORD"
         THEN [kind |-> "challenge", code |-> "NEW_PASSWORD_REQUIRED"]
         ELSE IF user.status = "RESET_REQUIRED"
         THEN [kind |-> "error", code |-> "PasswordResetRequiredException"]
         ELSE [kind |-> "tokens", code |-> ""]

Raise(err, result) == IF err # "" THEN [kind |-> "error", code |-> err] ELSE result

SessionTokens ==
    [access_token |-> "access", id_token |-> "id", refresh_token |-> "refresh",
     token_type |-> "Bearer", expires_in |-> 3600]

\* the error mapping of authenticate_user: status and detail
authenticate_error(code) ==
    IF code = "NotAuthorizedException"
    THEN [status |-> 401, detail |-> "Incorrect username or password"]
    ELSE IF code = "UserNotFoundException"
    THEN [status |-> 401, detail |-> "User not found"]
    ELSE IF code = "UserNotConfirmedException"
    THEN [status |-> 401, detail |-> "User account not confirmed"]
    ELSE [status |-> 500, detail |-> "Authentication error"]

\* faulty variant: the refresh token of the provider's result is dropped
authenticate_user_no_refresh(us, username, password, prevent, err) ==
    LET r == Raise(err, initiate_auth(us, username, password, prevent)) IN
    IF r.kind = "error"
    THEN Out(us, authenticate_error(r.code).status, authenticate_error(r.code).detail,
             {"initiate_auth"}, NoMail, NoBody)
    ELSE IF r.kind = "challenge"
    THEN Out(us, 403, "New password required", {"initiate_auth"}, NoMail, NoBody)
    ELSE Out(us, 200, "", {"initiate_auth"}, NoMail,
             [SessionTokens EXCEPT !.refresh_token = ""])

\* CognitoAuth.authenticate_user
authenticate_user(us, username, password, prevent, err) ==
    LET r == Raise(err, initiate_auth(us, username, password, prevent)) IN
    IF r.kind = "error"
    THEN Out(us, authenticate_error(r.code).status, authenticate_error(r.code).detail,
             {"initiate_auth"}, NoMail, NoBody)
    ELSE IF r.kind = "challenge"
    THEN Out(us, 403, "New password required", {"initiate_auth"}, NoMail, NoBody)
    ELSE Out(us, 200, "", {"initiate_auth"}, NoMail, SessionTokens)

\* the address a reset code is reported as sent to
Masked(username) == <<"masked", username>>

\* forgot_password(Username): delivery details, or an error
provider_forgot_password(us, username, prevent) ==
    IF ByUsername(us, username) = {}
    THEN IF prevent THEN [kind |-> "sent", code |-> "", destination |-> Masked(username)]
         ELSE [kind |-> "error", code |-> "UserNotFoundException",
               destination |-> <<>>]
    ELSE LET user == us[Lookup(us, username)] IN
         IF ~user.enabled \/ user.status = "FORCE_CHANGE_PASSWORD"
         THEN [kind |-> "error", code |-> "NotAuthorizedException",
               destination |-> <<>>]
         ELSE [kind |-> "sent", code |-> "", destination |-> Masked(username)]

GenericResetMessage == <<"If the email exists, a reset code has been sent">>

\* CognitoAuth.forgot_password
forgot_password(us, username, prevent, err) ==
    LET r == IF err # ""
             THEN [kind |-> "error", code |-> err, destination |-> <<>>]
             ELSE provider_forgot_password(us, username, prevent)
    IN IF r.kind = "sent"
       THEN Out(us, 200, "", {"forgot_password"}, NoMail,
                [message |-> <<"Password reset code sent to">> \o r.destination,
                 delivery_medium |-> "EMAIL"])
       ELSE IF r.code = "UserNotFoundException"
       THEN Out(us, 200, "", {"forgot_password"}, NoMail,
                [message |-> GenericResetMessage, delivery_medium |-> "EMAIL"])
       ELSE IF r.code = "LimitExceededException"
       THEN Out(us, 429, "Too many attempts", {"forgot_password"}, NoMail, NoBody)
       ELSE IF r.code = "InvalidParameterException"
       THEN Out(us, 400, "Invalid email address", {"forgot_password"}, NoMail, NoBody)
       ELSE Out(us, 500, "Failed to initiate password reset", {"forgot_password"},
                NoMail, NoBody)

\* the error mapping of complete_new_password_challenge
challenge_error_status(code) ==
    IF code = "NotAuthorizedException" THEN 401
    ELSE IF code = "InvalidPasswordException" THEN 400
    ELSE IF code = "UserNotFoundException" THEN 401
    ELSE IF code = "LimitExceededException" THEN 429
    ELSE 500

\* the pool's password policy
MeetsPolicy(password) == password # "weak"

\* faulty variant: the new password is set whether or not the provider asked
\* for one
complete_new_password_challenge_unasked(us, username, temporary_password, new_password, prevent, err) ==
    LET r == Raise(err, initiate_auth(us, username, temporary_password, prevent)) IN
    IF r.kind = "error"
    THEN Out(us, challenge_error_status(r.code), r.code, {"initiate_auth"}, NoMail, NoBody)
    ELSE IF ~MeetsPolicy(new_password)
    THEN Out(us, challenge_error_status("InvalidPasswordException"),
             "InvalidPasswordException",
             {"initiate_auth", "respond_to_auth_challenge"}, NoMail, NoBody)
    ELSE Out([us EXCEPT ![Lookup(us, username)].password = new_password,
                        ![Lookup(us, username)].status = "CONFIRMED"],
             200, "", {"initiate_auth", "respond_to_auth_challenge"}, NoMail,
             SessionTokens)

\* CognitoAuth.complete_new_password_challenge
complete_new_password_challenge(us, username, temporary_password, new_password, prevent, err) ==
    LET r == Raise(err, initiate_auth(us, username, temporary_password, prevent)) IN
    IF r.kind = "error"
    THEN Out(us, challenge_error_status(r.code), r.code, {"initiate_auth"}, NoMail, NoBody)
    ELSE IF r.kind = "challenge"
    THEN IF ~MeetsPolicy(new_password)
         THEN Out(us, challenge_error_status("InvalidPasswordException"),
                  "InvalidPasswordException",
                  {"initiate_auth", "respond_to_auth_challenge"}, NoMail, NoBody)
         ELSE Out([us EXCEPT ![Lookup(us, username)].password = new_password,
                             ![Lookup(us, username)].status = "CONFIRMED"],
                  200, "", {"initiate_auth", "respond_to_auth_challenge"}, NoMail,
                  SessionTokens)
    ELSE Out(us, 400, "No password reset required or temporary password is incorrect",
             {"initiate_auth"}, NoMail, NoBody)

\* the error mapping of change_password
change_password_error_status(code) ==
    IF code = "NotAuthorizedException" THEN 401
    ELSE IF code = "InvalidPasswordException" THEN 400
    ELSE IF code = "LimitExceededException" THEN 429
    ELSE 500

\* change_password(AccessToken, PreviousPassword, ProposedPassword) of the
\* provider; username: the account the access token was issued to
provider_change_password(us, username, old_password, new_password) ==
    IF ByUsername(us, username) = {}
    THEN ProviderError(us, "NotAuthorizedException")
    ELSE IF us[Lookup(us, username)].password # old_password
    THEN ProviderError(us, "NotAuthorizedException")
    ELSE IF ~MeetsPolicy(new_password)
    THEN ProviderError(us, "InvalidPasswordException")
    ELSE ProviderOk([us EXCEPT ![Lookup(us, username)].password = new_password])

\* CognitoAuth.change_password
change_password(us, username, old_password, new_password, err) ==
    LET r == Call(err, us, provider_change_password(us, username, old_password,
                                                    new_password))
    IN IF ~r.ok
       THEN Out(us, change_password_error_status(r.code), r.code,
                {"change_password"}, NoMail, NoBody)
       ELSE Out(r.users, 200, "", {"change_password"}, NoMail,
                [message |-> <<"Password changed successfully">>])

\* the error mapping of confirm_forgot_password
confirm_error_status(code) ==
    IF code = "CodeMismatchException" THEN 400
    ELSE IF code = "ExpiredCodeException" THEN 400
    ELSE IF code = "InvalidPasswordException" THEN 400
    ELSE IF code = "LimitExceededException" THEN 429
    ELSE 500

\* confirm_forgot_password(Username, ConfirmationCode, Password) of the
\* provider; code_ok: the code is the one that was sent and is still valid
provider_confirm_forgot_password(us, username, code_ok, new_password, prevent) ==
    IF ByUsername(us, username) = {}
    THEN ProviderError(us, IF prevent THEN "CodeMismatchException"
                           ELSE "UserNotFoundException")
    ELSE IF ~code_ok THEN ProviderError(us, "CodeMismatchException")
    ELSE IF ~MeetsPolicy(new_password)
    THEN ProviderError(us, "InvalidPasswordException")
    ELSE ProviderOk([us EXCEPT ![Lookup(us, username)].password = new_password,
                               ![Lookup(us, username)].status = "CONFIRMED"])

\* CognitoAuth.confirm_forgot_password
confirm_forgot_password(us, username, code_ok, new_password, prevent, err) ==
    LET r == Call(err, us, provider_confirm_forgot_password(us, username, code_ok,
                                                            new_password, prevent))
    IN IF ~r.ok
       THEN Out(us, confirm_error_status(r.code), r.code,
                {"confirm_forgot_password"}, NoMail, NoBody)
       ELSE Out(r.users, 200, "", {"confirm_forgot_password"}, NoMail,
                [message |-> <<"Password reset successfully">>])

\* ------------------------------------------------------------ request inputs

File(filename, content_type, size_known, size) ==
    [filename |-> filename, content_type |-> content_type,
     size_known |-> size_known, size |-> size]

SmallJpeg == File(<<"a", ".", "jpg">>, "image/jpeg", TRUE, 1)

Files ==
    { SmallJpeg,
      File(<<"b", "/", "a", ".", "jpg">>, "image/png", FALSE, max_file_size + 1),
      File(<<"a", ".", "jpg">>, "image/jpeg", TRUE, max_file_size + 1),
      File(<<"a", ".", "jpg">>, "application/pdf", TRUE, 1) }

CustomerIds == {None, <<"1">>, <<"1", "2">>}

Prefixes == {<<>>, <<"general", "/">>, <<"customers", "/", "1">>}

AbsentKey == <<"general", "/", "a">>

\* the callers of the storage scenarios: each role, and one rejected token
ImgTokens ==
    { GoodToken(AdminClaims), GoodToken(Cust1Claims), GoodToken(Cust12Claims),
      GoodToken(NoGroupClaims),
      [GoodToken(AdminClaims) EXCEPT !.expired = TRUE] }

\* the outcomes of the key-set fetch: none is made once the cache is loaded
FetchOutcomes == IF jwks.loaded THEN {TRUE} ELSE BOOLEAN

\* ------------------------------------------------------ directory routes

\* the response of a customers route: 401, 403 (require_admin), or the service's
Gated(op, v, req, out) ==
    IF ~v.ok THEN Resp(op, v.status, v.detail, v, {}, req, NoBody)
    ELSE IF ~require_admin(v.claims)
    THEN Resp(op, 403, "Admin access required", v, {}, req, NoBody)
    ELSE [Resp(op, out.status, out.detail, v, out.calls, req, out.body)
             EXCEPT !.mail = out.mailed]

Admitted(v) == v.ok /\ require_admin(v.claims)

\* the response of a route that takes no bearer token
Open(op, req, out) ==
    [Resp(op, out.status, out.detail, NoCaller, out.calls, req, out.body)
        EXCEPT !.mail = out.mailed]

AdminAccount == Account("admin@x", "Admin", None, "A1", "CONFIRMED", {"Admins"})

\* a customer account whose password an operator has reset in the console
LegacyAccount ==
    [Account("old@x", "Old", None, "T1", "RESET_REQUIRED", {"Customers"})
        EXCEPT !.customer_id = SubOf(2)]

Emails == {"admin@x", "c1@x"}
Usernames == {"admin@x", "old@x", "c1@x", "nobody@x"}
Names == {"Ann"}
NoPlusPhone == <<"1", "2", "3", "4", "5", "6", "7">>
Phones == {None, NoPlusPhone}
TempPasswords == {"T1", "T2"}
LoginPasswords == {"T1", "U1", "A1", "wrong"}
NewPasswords == {"U1", "weak"}
MailOutcomes == {"sent", "rejected"}
ErrorCodes == {"InternalErrorException", "InvalidParameterException"}

Faults(calls) == {NoFault} \cup {[at |-> c, code |-> e] : c \in calls, e \in ErrorCodes}

CreateCalls ==
    {"admin_create_user", "admin_update_user_attributes",
     "admin_set_user_password", "admin_add_user_to_group"}

ResendCalls == {"list_users", "admin_get_user", "admin_set_user_password"}

AdminOnly == {GoodToken(AdminClaims)}

\* ------------------------------------------------------------------ actions

NoResp == Resp("none", 0, "", NoCaller, {}, NoBody, NoBody)

Init ==
    /\ jwks = EmptyCache
    /\ store = <<>>
    /\ clock = [day |-> 1, sec |-> 0]
    /\ users = <<AdminAccount>>
    /\ procs = <<>>
    /\ hide_users = FALSE
    /\ last = NoResp

\* the pool as the program may find it at start
InitDir ==
    /\ jwks = EmptyCache
    /\ store = <<>>
    /\ clock = [day |-> 1, sec |-> 0]
    /\ users \in {<<AdminAccount>>, <<AdminAccount, LegacyAccount>>}
    /\ procs = <<>>
    /\ hide_users \in BOOLEAN
    /\ last = NoResp

\* time passes: the next second, or the next day
Tick ==
    /\ (clock.day - 1) + clock.sec < MaxTicks
    /\ \/ clock' = [clock EXCEPT !.sec = @ + 1]
       \/ clock' = [day |-> clock.day + 1, sec |-> 0]
    /\ UNCHANGED <<jwks, store, users, procs, hide_users, last>>

UploadImage(T, F, C) ==
    \E tok \in T, fetchOk \in FetchOutcomes, file \in F,
       customer_id \in C, putOk \in BOOLEAN :
        LET r == upload_image(tok, fetchOk, file, customer_id, putOk)
        IN /\ Cardinality(DOMAIN r.store) <= MaxObjects
           /\ store' = r.store
           /\ jwks' = r.jwks
           /\ last' = r.resp
           /\ UNCHANGED <<clock, users, procs, hide_users>>

ListImages(T, P) ==
    \E tok \in T, fetchOk \in FetchOutcomes, prefix \in P,
       max_keys \in 1..MaxObjects, listOk \in BOOLEAN,
       skip \in {{}} \cup {{k} : k \in DOMAIN store} :
        LET r == list_images(tok, fetchOk, prefix, max_keys, listOk, skip)
        IN /\ jwks' = r.jwks
           /\ last' = r.resp
           /\ UNCHANGED <<store, clock, users, procs, hide_users>>

DeleteImage(T) ==
    \E tok \in T, fetchOk \in FetchOutcomes,
       key \in DOMAIN store \cup {AbsentKey}, delOk \in BOOLEAN :
        LET r == delete_image(tok, fetchOk, key, delOk)
        IN /\ store' = r.store
           /\ jwks' = r.jwks
           /\ last' = r.resp
           /\ UNCHANGED <<clock, users, procs, hide_users>>

\* routers/customers.py create_customer
CreateCustomer(T, E, Ph, Pw, F) ==
    \E tok \in T, fetchOk \in FetchOutcomes, email \in E, name \in Names,
       phone_number \in Ph, temp \in Pw,
       fault \in F, mail \in MailOutcomes :
        LET v == get_current_user(tok, jwks, fetchOk)
            r == create_customer(users, email, name, phone_number, temp, fault, mail)
            req == [email |-> email, name |-> name, phone_number |-> phone_number]
            out == Out(r.users, r.proc.status, r.proc.detail, r.proc.calls,
                       r.proc.mailed, create_customer_body(r.proc))
        IN /\ jwks' = v.jwks
           /\ users' = IF Admitted(v) THEN r.users ELSE users
           /\ Len(users') <= MaxUsers
           /\ last' = Gated("create_customer", v, req, out)
           /\ UNCHANGED <<store, clock, procs, hide_users>>

\* routers/customers.py resend_welcome_email
ResendWelcome(T, Pw, F) ==
    \E tok \in T, fetchOk \in FetchOutcomes, i \in 1..MaxUsers,
       temp \in Pw, fault \in F, mail \in MailOutcomes :
        LET v == get_current_user(tok, jwks, fetchOk)
            out == resend_customer_welcome(users, SubOf(i), temp, fault, mail)
            req == [customer_id |-> SubOf(i), fault |-> fault, mail |-> mail]
        IN /\ jwks' = v.jwks
           /\ users' = IF Admitted(v) THEN out.users ELSE users
           /\ last' = Gated("resend_welcome", v, req, out)
           /\ UNCHANGED <<store, clock, procs, hide_users>>

\* routers/auth.py login
Login ==
    \E username \in Usernames, password \in LoginPasswords,
       err \in {"", "TooManyRequestsException"} :
        LET out == authenticate_user(users, username, password, hide_users, err)
        IN /\ last' = Open("login", [username |-> username, password |-> password,
                                     err |-> err], out)
           /\ UNCHANGED <<jwks, store, clock, users, procs, hide_users>>

\* routers/auth.py forgot_password
ForgotPasswordOn(Er) ==
    \E username \in Usernames, err \in Er :
        LET out == forgot_password(users, username, hide_users, err)
        IN /\ last' = Open("forgot_password", [username |-> username, err |-> err], out)
           /\ UNCHANGED <<jwks, store, clock, users, procs, hide_users>>

ForgotPassword == ForgotPasswordOn({"", "LimitExceededException"})

\* routers/auth.py complete_new_password
CompleteNewPasswordOn(Er) ==
    \E username \in Usernames, temporary_password \in LoginPasswords,
       new_password \in NewPasswords, err \in Er :
        LET out == complete_new_password_challenge(users, username,
                       temporary_password, new_password, hide_users, err)
        IN /\ users' = out.users
           /\ last' = Open("complete_new_password",
                           [username |-> username,
                            temporary_password |-> temporary_password,
                            new_password |-> new_password, err |-> err], out)
           /\ UNCHANGED <<jwks, store, clock, procs, hide_users>>

CompleteNewPassword == CompleteNewPasswordOn({"", "LimitExceededException"})

\* routers/auth.py change_password; username: the holder of the access token
ChangePassword(Er) ==
    \E username \in Usernames, old_password \in LoginPasswords,
       new_password \in NewPasswords, err \in Er :
        LET out == change_password(users, username, old_password, new_password, err)
        IN /\ users' = out.users
           /\ last' = Open("change_password",
                           [username |-> username, old_password |-> old_password,
                            new_password |-> new_password, err |-> err], out)
           /\ UNCHANGED <<jwks, store, clock, procs, hide_users>>

\* routers/auth.py reset_password
ResetPassword(Er) ==
    \E username \in Usernames, code_ok \in BOOLEAN,
       new_password \in NewPasswords, err \in Er :
        LET out == confirm_forgot_password(users, username, code_ok, new_password,
                                           hide_users, err)
        IN /\ users' = out.users
           /\ last' = Open("reset_password",
                           [username |-> username, code_ok |-> code_ok,
                            new_password |-> new_password, err |-> err], out)
           /\ UNCHANGED <<jwks, store, clock, procs, hide_users>>

\* routers/customers.py list_customers
ListCustomers(T) ==
    \E tok \in T, fetchOk \in FetchOutcomes, limit \in 1..MaxUsers,
       err \in {"", "InternalErrorException"} :
        LET v == get_current_user(tok, jwks, fetchOk)
            out == list_customers(users, limit, err)
        IN /\ jwks' = v.jwks
           /\ last' = Gated("list_customers", v, [limit |-> limit], out)
           /\ UNCHANGED <<store, clock, users, procs, hide_users>>

\* routers/customers.py get_customer
GetCustomer(T) ==
    \E tok \in T, fetchOk \in FetchOutcomes, i \in 1..MaxUsers,
       err \in {"", "InternalErrorException"} :
        LET v == get_current_user(tok, jwks, fetchOk)
            out == get_customer(users, SubOf(i), err)
        IN /\ jwks' = v.jwks
           /\ last' = Gated("get_customer", v, [customer_id |-> SubOf(i)], out)
           /\ UNCHANGED <<store, clock, users, procs, hide_users>>

\* routers/customers.py update_customer
UpdateCustomer(T, N, Ph, En, F) ==
    \E tok \in T, fetchOk \in FetchOutcomes, i \in 1..MaxUsers,
       name \in N, phone_number \in Ph, enabled \in En, fault \in F :
        LET v == get_current_user(tok, jwks, fetchOk)
            out == update_customer(users, SubOf(i), name, phone_number,
                                   enabled, fault)
            req == [customer_id |-> SubOf(i), name |-> name,
                    phone_number |-> phone_number, enabled |-> enabled,
                    fault |-> fault]
        IN /\ jwks' = v.jwks
           /\ users' = IF Admitted(v) THEN out.users ELSE users
           /\ last' = Gated("update_customer", v, req, out)
           /\ UNCHANGED <<store, clock, procs, hide_users>>

NextImg ==
    \/ UploadImage(ImgTokens, Files, CustomerIds)
    \/ ListImages(ImgTokens, Prefixes)
    \/ DeleteImage(ImgTokens)

\* the image routes over the bucket
SpecImg == Init /\ [][NextImg]_vars

NextDir ==
    \/ CreateCustomer(AdminOnly, Emails, Phones, TempPasswords, Faults(CreateCalls))
    \/ ResendWelcome(AdminOnly, TempPasswords, Faults(ResendCalls))
    \/ Login
    \/ ForgotPassword
    \/ CompleteNewPassword

\* the customer directory and the password flows over the pool
SpecDir == InitDir /\ [][NextDir]_vars

\* ---------------------------------------------- every gated route, any token

NextGate ==
    \/ UploadImage(Tokens, {SmallJpeg}, {None})
    \/ ListImages(Tokens, {<<>>})
    \/ DeleteImage(Tokens)
    \/ CreateCustomer(Tokens, {"c1@x"}, {None}, TempPasswords, {NoFault})
    \/ ListCustomers(Tokens)
    \/ GetCustomer(Tokens)
    \/ UpdateCustomer(Tokens, {NotGiven}, {NotGiven},
                      {Given(FALSE), Given(TRUE)}, {NoFault})
    \/ ResendWelcome(Tokens, {"T2"}, {NoFault})

\* all role-gated routes, called with every kind of bearer token
SpecGate == Init /\ [][NextGate]_vars

\* ------------------------------------------------------- role derivation

GroupNames == {"Admins", "Customers", "Staff"}

\* the group-membership claims a token may carry
GroupClaims ==
    {Missing} \cup
    {Groups(l) : l \in UNION {[1..n -> GroupNames] : n \in 0..MaxGroups}}

DecodedClaims(g) == [ok |-> TRUE, claims |-> Claims(g, None, <<"1">>)]

InitRole ==
    /\ jwks = EmptyCache
    /\ store = <<>>
    /\ clock = [day |-> 1, sec |-> 0]
    /\ users = <<AdminAccount>>
    /\ procs = <<>>
    /\ hide_users = FALSE
    /\ \E g \in GroupClaims :
          last = Resp("claims", 0, "", DecodedClaims(g), {}, NoBody, NoBody)

\* get_user_role and require_admin applied to the decoded claims
DeriveRole ==
    /\ last.op = "claims"
    /\ last' = [last EXCEPT
                   !.op = "role",
                   !.body = [role |-> get_user_role(last.claims),
                             admitted |-> require_admin(last.claims)]]
    /\ UNCHANGED <<jwks, store, clock, users, procs, hide_users>>

NextRole == DeriveRole

SpecRole == InitRole /\ [][NextRole]_vars

\* ------------------------------------- concurrent create_customer requests

Idle == [NewRequest("", "", None, "") EXCEPT !.pc = "idle"]

InitConc ==
    /\ jwks = EmptyCache
    /\ store = <<>>
    /\ clock = [day |-> 1, sec |-> 0]
    /\ users = <<AdminAccount>>
    /\ procs = [p \in 1..MaxRequests |-> Idle]
    /\ hide_users = FALSE
    /\ last = NoResp

\* an admitted POST /customers enters CognitoAuth.create_customer
BeginCreate ==
    \E p \in 1..MaxRequests, email \in Emails, name \in Names,
       temp \in TempPasswords :
        /\ procs[p].pc = "idle"
        /\ procs' = [procs EXCEPT ![p] = NewRequest(email, name, None, temp)]
        /\ UNCHANGED <<jwks, store, clock, users, hide_users, last>>

\* one request runs up to and including its next provider call
StepCreate ==
    \E p \in 1..MaxRequests, err \in {"", "InternalErrorException"},
       mail \in MailOutcomes :
        /\ procs[p].pc \notin {"idle", "done"}
        /\ LET n == create_customer_step(users, procs[p], err, mail)
           IN /\ Len(n.users) <= MaxUsers
              /\ users' = n.users
              /\ procs' = [procs EXCEPT ![p] = n.proc]
        /\ UNCHANGED <<jwks, store, clock, hide_users, last>>

NextConc == BeginCreate \/ StepCreate

\* create_customer requests interleaved at their provider calls
SpecConc == InitConc /\ [][NextConc]_vars


\* ================================================================ properties

\* the caller's token carries group g
Member(c, g) ==
    c.groups.present /\ \E i \in 1..Len(c.groups.list) : c.groups.list[i] = g

ImageOps == {"upload", "list", "delete"}

GatedOps ==
    ImageOps \cup {"create_customer", "list_customers", "get_customer",
                   "update_customer", "resend_welcome"}

InScope(k, X) ==
    \/ IsPrefix(<<"customers", "/">> \o X \o <<"/">>, k)
    \/ IsPrefix(<<"general", "/">>, k)

CustomerListed ==
    /\ last.op = "list" /\ last.verified /\ last.status = 200
    /\ Member(last.claims, "Customers") /\ ~Member(last.claims, "Admins")

\* C2: when a caller in the customer role with customer id X lists images,
\* every returned key starts with customers/X/ or general/, and the result
\* is the same whatever prefix parameter the request carries.
C2_CustomerScope ==
    CustomerListed =>
        LET X == IF last.claims.cid # None THEN last.claims.cid
                 ELSE last.claims.sub
        IN /\ \A i \in 1..Len(last.body.images) :
                  InScope(last.body.images[i].key, X)
           /\ \A p \in Prefixes :
                  list_images(GoodToken(last.claims), TRUE, p,
                              last.req.max_keys, TRUE,
                              last.req.skip).resp.body = last.body

\* customer 1 lists a bucket that holds an object of customer 12 and is
\* shown something, while its request carries the prefix customers/1
C2_Witness ==
    /\ CustomerListed /\ last.claims = Cust1Claims
    /\ last.req.prefix = <<"customers", "/", "1">>
    /\ last.body.count > 0
    /\ \E k \in DOMAIN store : IsPrefix(<<"customers", "/", "1", "2", "/">>, k)

\* a login with a wrong password for an account of the pool, answered by
\* the provider itself
WrongPasswordLogin ==
    /\ last.op = "login" /\ last.req.err = ""
    /\ ByUsername(users, last.req.username) # {}
    /\ users[Lookup(users, last.req.username)].password # last.req.password

\* C3: authenticate with an invalid password fails with 401, and the
\* response (status and detail) is identical to the response for a username
\* that does not exist.
C3_NoExistenceLeak ==
    WrongPasswordLogin =>
        /\ last.status = 401
        /\ \A u \in Usernames, pw \in LoginPasswords :
              ByUsername(users, u) = {} =>
                  LET o == authenticate_user(users, u, pw, hide_users, "")
                  IN o.status = last.status /\ o.detail = last.detail

\* a reset request for a username the provider reports as not found
UnknownUserReset ==
    /\ last.op = "forgot_password" /\ last.req.err = ""
    /\ ~hide_users
    /\ ByUsername(users, last.req.username) = {}

\* C4: forgot_password for a username the provider reports as not found
\* returns success with the generic message, and that response is the same
\* as the response for a username that exists.
C4_NoEnumeration ==
    UnknownUserReset =>
        /\ last.status = 200
        /\ last.body.message = GenericResetMessage
        /\ \A u \in Usernames :
              ByUsername(users, u) # {} =>
                  LET o == forgot_password(users, u, hide_users, "")
                  IN o.status = last.status /\ o.body = last.body

\* what a sound verification accepts: a well-formed token signed by a key of
\* the key set and not expired, with the key set at hand
TokenSound(tok, cache, fetchOk) ==
    /\ tok.form = "jwt" /\ tok.kid \in KeySet /\ tok.sig /\ ~tok.expired
    /\ (cache.loaded \/ fetchOk)

\* C5: token verification either returns the token's claims or fails with
\* 401 whatever the cause (unknown key id, bad signature, expired, malformed,
\* key set not fetched), and a role-gated route called with a token that
\* fails verification answers 401 and makes no provider call.
C5_VerifyOrUnauthorized ==
    /\ \A tok \in Tokens, fetchOk \in BOOLEAN :
          LET v == verify_token(tok, jwks, fetchOk)
          IN IF TokenSound(tok, jwks, fetchOk)
             THEN v.ok /\ v.claims = tok.claims
             ELSE ~v.ok /\ v.status = 401
    /\ (last.op \in GatedOps /\ ~last.verified) =>
          (last.status = 401 /\ last.calls = {} /\ last.body = NoBody)
    /\ (last.op \in GatedOps /\ last.calls # {}) => last.verified

\* a customer-directory route was called with a rejected token while the
\* key set was cached, and answered 401
C5_Witness ==
    /\ last.op = "create_customer" /\ ~last.verified /\ last.status = 401
    /\ jwks.loaded
    /\ ByUsername(users, "c1@x") = {}

\* C6: the role is admin exactly when "Admins" is among the groups (also
\* next to "Customers"), customer exactly when "Customers" is and "Admins"
\* is not, unknown otherwise (claim missing or empty included), and
\* require_admin admits exactly the admin role.
C6_RoleDerivation ==
    last.op = "role" =>
        LET A == Member(last.claims, "Admins")
            C == Member(last.claims, "Customers")
        IN /\ last.body.role \in {"admin", "customer", "unknown"}
           /\ last.body.role = "admin" <=> A
           /\ last.body.role = "customer" <=> (C /\ ~A)
           /\ last.body.role = "unknown" <=> (~A /\ ~C)
           /\ last.body.admitted <=> last.body.role = "admin"

\* claims listing Customers before Admins came out as admin
C6_Witness ==
    /\ last.op = "role" /\ last.body.role = "admin"
    /\ last.claims.groups.list = <<"Customers", "Admins">>

\* C7: when create_customer returns success, the pool holds the account
\* under the email as login name, in FORCE_CHANGE_PASSWORD state, member of
\* the Customers group, its customer-id attribute equal to its sub, and the
\* returned id and folder are that sub and customers/{sub}.
C7_CreatedAccount ==
    (last.op = "create_customer" /\ last.status = 201) =>
        /\ Cardinality(ByUsername(users, last.req.email)) = 1
        /\ LET i == Lookup(users, last.req.email)
           IN /\ users[i].status = "FORCE_CHANGE_PASSWORD"
              /\ "Customers" \in users[i].groups
              /\ users[i].customer_id = SubOf(i)
              /\ users[i].password = last.body.temporary_password
              /\ last.body.customer_id = SubOf(i)
              /\ last.body.email = last.req.email
              /\ last.body.customer_folder = <<"customers", "/">> \o SubOf(i)

\* a customer was created next to the accounts the pool already held
C7_Witness ==
    /\ last.op = "create_customer" /\ last.status = 201
    /\ last.req.email = "c1@x"
    /\ ByUsername(users, "c1@x") # {}
    /\ Len(users) >= 2

\* C8: whatever the outcome of the welcome send, create_customer returns
\* the same success result with the generated temporary password, and the
\* send leaves the pool as it was.
C8_BestEffortWelcome ==
    [][\A p \in 1..MaxRequests :
          (procs[p].pc = "send_welcome_email" /\ procs'[p] # procs[p]) =>
              /\ users' = users
              /\ procs'[p].pc = "done"
              /\ procs'[p].status = 201
              /\ create_customer_body(procs'[p]) =
                     create_customer_body([procs[p] EXCEPT !.status = 201])
              /\ create_customer_body(procs'[p]).temporary_password =
                     procs[p].temp]_vars

\* a request returned success although its welcome send failed
C8_Witness ==
    \E p \in 1..MaxRequests :
        /\ procs[p].pc = "done" /\ procs[p].status = 201
        /\ "send_email" \in procs[p].calls
        /\ procs[p].mailed = NoMail

\* the request returned 201
Succeeded(p) == procs[p].pc = "done" /\ procs[p].status = 201

EligibleResend(i) ==
    /\ last'.op = "resend_welcome"
    /\ last'.verified /\ Member(last'.claims, "Admins")
    /\ last'.req.fault = NoFault
    /\ last'.req.customer_id = SubOf(i)
    /\ i <= Len(users)
    /\ users[i].status \in {"FORCE_CHANGE_PASSWORD", "RESET_REQUIRED"}

\* what a successful resend leaves behind for account i: the returned
\* password is the account's, so the previous one is not unless the
\* generator drew the same value again
ResendDone(i) ==
    /\ last'.status = 200
    /\ users'[i].password = last'.body.temporary_password
    /\ users'[i].status = "FORCE_CHANGE_PASSWORD"
    /\ last'.mail = Mail(users[i].Username, last'.body.temporary_password)
    /\ last'.body.temporary_password # users[i].password
          => users'[i].password # users[i].password

\* C10 as stated: resend_welcome on an account in FORCE_CHANGE_PASSWORD or
\* RESET_REQUIRED always succeeds: it sets a fresh temporary password, keeps
\* the must-change state, sends the notification with that password and
\* returns it, and the previous temporary password is no longer the
\* account's password.
C10_AlwaysSucceeds ==
    [][\A i \in 1..MaxUsers : EligibleResend(i) => ResendDone(i)]_vars

\* C10 amended: such a resend succeeds when the email provider accepts the
\* notification, and then sets the new temporary password, keeps the
\* must-change state, sends the notification with that password and returns
\* it; when the send fails the call fails with 500 and returns no password.
C10_SucceedsWhenSent ==
    [][\A i \in 1..MaxUsers :
          EligibleResend(i) =>
              IF last'.req.mail = "sent" THEN ResendDone(i)
              ELSE last'.status = 500 /\ last'.body = NoBody]_vars

\* a resend has replaced the password of the reset-required account and
\* mailed the new one
C10_Witness ==
    /\ last.op = "resend_welcome" /\ last.status = 200
    /\ last.req.customer_id = SubOf(2)
    /\ Len(users) >= 2
    /\ users[2].Username = "old@x"
    /\ users[2].status = "FORCE_CHANGE_PASSWORD"
    /\ users[2].password = "T2"
    /\ last.mail = Mail("old@x", "T2")


\* ------------------------------------------- resend over every user status

\* the UserStatus values of the pool
PoolStatuses ==
    {"FORCE_CHANGE_PASSWORD", "RESET_REQUIRED", "CONFIRMED", "UNCONFIRMED",
     "ARCHIVED", "COMPROMISED", "UNKNOWN", "EXTERNAL_PROVIDER"}

InitResend ==
    /\ jwks = EmptyCache
    /\ store = <<>>
    /\ clock = [day |-> 1, sec |-> 0]
    /\ \E s \in PoolStatuses :
          users = <<AdminAccount, [LegacyAccount EXCEPT !.status = s]>>
    /\ procs = <<>>
    /\ hide_users = FALSE
    /\ last = NoResp

NextResend == ResendWelcome(AdminOnly, TempPasswords, Faults(ResendCalls))

SpecResend == InitResend /\ [][NextResend]_vars

\* the step is an admin's resend_welcome for account i, whose status was
\* neither FORCE_CHANGE_PASSWORD nor RESET_REQUIRED, and the lookups of the
\* account went through
IneligibleResend(i) ==
    /\ last'.op = "resend_welcome"
    /\ last'.verified /\ Member(last'.claims, "Admins")
    /\ last'.req.fault = NoFault
    /\ last'.req.customer_id = SubOf(i)
    /\ i <= Len(users)
    /\ users[i].status \notin {"FORCE_CHANGE_PASSWORD", "RESET_REQUIRED"}

\* C11: resend_welcome on an account whose status is CONFIRMED, or any
\* status other than FORCE_CHANGE_PASSWORD and RESET_REQUIRED, fails with
\* 400, sets no password and sends no notification: the pool is unchanged.
C11_ResendRefused ==
    [][\A i \in 1..MaxUsers :
          IneligibleResend(i) =>
              /\ last'.status = 400
              /\ users' = users
              /\ last'.mail = NoMail
              /\ last'.calls \cap {"admin_set_user_password", "send_email"} = {}
      ]_vars

\* a resend for an account still UNCONFIRMED was refused and the account
\* kept its password and status
C11_Witness ==
    /\ last.op = "resend_welcome" /\ last.status = 400
    /\ last.req.customer_id = SubOf(2)
    /\ Len(users) = 2
    /\ users[2].status = "UNCONFIRMED"
    /\ users[2].password = "T1"


\* ------------------------------------------- create_customer over phone values

MaxDigits == 16

\* n decimal digits 1 2 3 ...
DigitRun(n) == [i \in 1..n |-> Dig(i % 10)]

\* the characters after the optional "+": decimal digits only, or with the
\* last one replaced by a dash, a space before the last one, or the last one
\* replaced by a digit character outside 0-9
PhoneBodies ==
    {DigitRun(n) : n \in 0..MaxDigits}
    \cup {DigitRun(n - 1) \o <<x>> : n \in 1..MaxDigits, x \in {"-", "u0663", "u00b2"}}
    \cup {DigitRun(n - 1) \o <<" ", Dig(n % 10)>> : n \in 1..MaxDigits}

\* phone_number of CustomerCreate: absent, or a string
PhoneInputs ==
    {None} \cup
    {lead \o plus \o body \o trail :
        lead \in {<<>>, <<" ">>}, plus \in {<<>>, <<"+">>},
        body \in PhoneBodies, trail \in {<<>>, <<" ">>}}

InitPhone ==
    /\ jwks = EmptyCache
    /\ store = <<>>
    /\ clock = [day |-> 1, sec |-> 0]
    /\ users = <<AdminAccount>>
    /\ procs = <<>>
    /\ hide_users = FALSE
    /\ last = NoResp

\* the first create_customer request against the fresh pool, for each phone
\* value
NextPhone ==
    /\ last = NoResp
    /\ CreateCustomer(AdminOnly, {"c1@x"}, PhoneInputs, {"T1"}, {NoFault})

SpecPhone == InitPhone /\ [][NextPhone]_vars

\* "+" followed by 7 to 15 of the digits 0-9
PlusDigits(s) ==
    /\ Len(s) \in 8..16
    /\ s[1] = "+"
    /\ \A i \in 2..Len(s) : In(s[i], Digits)

\* the step is an admin's create_customer with a non-empty phone number
CreateWithPhone ==
    /\ last'.op = "create_customer"
    /\ last'.verified /\ Member(last'.claims, "Admins")
    /\ last'.req.phone_number # None

\* C12: create_customer passes a supplied phone number on to the identity
\* provider exactly when, trimmed, it is "+" followed by 7 to 15 digits; any
\* other non-empty value fails with 400 before any provider call and leaves
\* the pool unchanged.
C12_PhoneAccepted ==
    [][CreateWithPhone =>
         IF PlusDigits(Strip(last'.req.phone_number))
         THEN "admin_create_user" \in last'.calls
         ELSE /\ last'.status = 400
              /\ last'.calls = {}
              /\ users' = users
      ]_vars

\* a number whose last character is a digit outside 0-9 reached the pool
C12_NonDecimalStored ==
    /\ last.op = "create_customer" /\ last.status = 201
    /\ Len(users) = 2
    /\ users[2].phone = <<"+", "1", "2", "3", "4", "5", "6", "u0663">>


\* ------------------------------------------- generated temporary passwords

\* fill positions and shuffle iterations whose draw is varied
MaxVaried == 1
MaxSwaps == 1

\* draws of the four required characters: the first or the last of each set
RequiredPicks ==
    {<<a, b, c, d>> : a \in {1, Len(uppercase)}, b \in {1, Len(lowercase)},
                      c \in {1, Len(Digits)}, d \in {1, Len(special)}}

\* one index of all_chars in each of the four sets
FillReps ==
    {1, Len(uppercase) + 1, Len(uppercase) + Len(lowercase) + 1,
     Len(uppercase) + Len(lowercase) + Len(Digits) + 1}

\* draws of the fill: the first MaxVaried positions vary on their own, the
\* others share one draw
FillPicks ==
    {[i \in 1..fill_count |-> IF i <= MaxVaried THEN v[i] ELSE r] :
        v \in [1..MaxVaried -> FillReps], r \in FillReps}

\* draws of the shuffle: each of the first MaxSwaps iterations draws
\* position 0, 3 or 4 or the element's own position, the later ones their own
ShuffleDraws ==
    {[i \in 1..(fill_count + 3) |->
         IF i > fill_count + 3 - MaxSwaps /\ d[fill_count + 4 - i] >= 0
         THEN d[fill_count + 4 - i]
         ELSE i] :
        d \in [1..MaxSwaps -> {-1, 0, 3, 4}]}

GeneratedPasswords ==
    {generate_temporary_password(p, f, js) :
        p \in RequiredPicks, f \in FillPicks, js \in ShuffleDraws}

InitPwd ==
    /\ jwks = EmptyCache
    /\ store = <<>>
    /\ clock = [day |-> 1, sec |-> 0]
    /\ users \in {<<AdminAccount>>, <<AdminAccount, LegacyAccount>>}
    /\ procs = <<>>
    /\ hide_users = FALSE
    /\ last = NoResp

\* the first request against the pool issues a generated password
NextPwd ==
    /\ last = NoResp
    /\ \/ CreateCustomer(AdminOnly, {"c1@x"}, {None}, GeneratedPasswords, {NoFault})
       \/ ResendWelcome(AdminOnly, GeneratedPasswords, {NoFault})

SpecPwd == InitPwd /\ [][NextPwd]_vars

HasOneOf(pw, set) == \E i \in 1..Len(pw) : In(pw[i], set)

\* the request in last issued a temporary password
Issued ==
    \/ last.op = "create_customer" /\ last.status = 201
    \/ last.op = "resend_welcome" /\ last.status = 200

\* C13: every temporary password issued by create_customer or
\* resend_welcome has length 16 and contains at least one uppercase letter,
\* one lowercase letter, one digit and one symbol of "!@#$%^&*", whatever
\* the generator's random choices and shuffle.
C13_PasswordShape ==
    Issued =>
        LET pw == last.body.temporary_password
        IN /\ Len(pw) = 16
           /\ HasOneOf(pw, uppercase) /\ HasOneOf(pw, lowercase)
           /\ HasOneOf(pw, Digits) /\ HasOneOf(pw, special)
           /\ \A i \in 1..Len(users) :
                 SubOf(i) = last.body.customer_id => users[i].password = pw

\* a resend issued a password whose only symbol is the required one, moved
\* to the last place by the shuffle
C13_Witness ==
    /\ last.op = "resend_welcome" /\ last.status = 200
    /\ LET pw == last.body.temporary_password
       IN /\ pw[16] = "*"
          /\ \A i \in 1..15 : ~In(pw[i], special)
          /\ users[2].password = pw


\* ----------------------------------------------------- upload validation

\* the step is an administrator's upload (the clock does not move in it)
AdminUpload ==
    /\ clock' = clock
    /\ last'.op = "upload"
    /\ last'.verified /\ Member(last'.claims, "Admins")

KeyFiles ==
    { File(<<"a", ".", "b", ".", "jpg">>, "image/jpeg", TRUE, 1),
      File(<<"b", "/", "a", ".", "b", ".", "jpg">>, "image/png", TRUE, 2),
      File(<<"notes">>, "image/jpeg", TRUE, 3) }

NextKeys ==
    \/ Tick
    \/ UploadImage(AdminOnly, KeyFiles, {None, <<"1">>})

\* administrators' uploads as the clock advances
SpecKeys == Init /\ [][NextKeys]_vars

NoSlash(s) == \A i \in 1..Len(s) : s[i] # "/"
NoDot(s) == \A i \in 1..Len(s) : s[i] # "."

\* what follows the last "/" of a filename
FinalComponent(filename) ==
    CHOOSE c \in {SubSeq(filename, i, Len(filename)) : i \in 1..(Len(filename) + 1)} :
        /\ NoSlash(c)
        /\ Len(c) < Len(filename) => filename[Len(filename) - Len(c)] = "/"

\* {name}_{timestamp}.{ext} for name.ext = base, ext being what follows the
\* last dot; {base}_{timestamp} for a base without a dot
Suffixed(base, ts) ==
    IF NoDot(base) THEN {base \o <<"_">> \o ts}
    ELSE {SubSeq(base, 1, i - 1) \o <<"_">> \o ts \o <<".">>
              \o SubSeq(base, i + 1, Len(base)) :
            i \in {j \in 1..Len(base) :
                     base[j] = "." /\ NoDot(SubSeq(base, j + 1, Len(base)))}}

\* the step is an administrator's upload that succeeded
UploadDone == AdminUpload /\ last'.status = 201

C16_NoKeyCollision ==
    [][UploadDone => last'.body.key \notin DOMAIN store]_vars


\* ------------------------------------------------- upload, list and delete

\* a small JPEG and a small PNG, for the general scope and for customer 1
TripFiles == {SmallJpeg, File(<<"b", ".", "png">>, "image/png", TRUE, 2)}

TripCallers == {GoodToken(AdminClaims), GoodToken(Cust1Claims)}

NextTrip ==
    \/ UploadImage(AdminOnly, TripFiles, {None, <<"1">>})
    \/ ListImages(TripCallers, {<<>>, <<"general", "/">>})
    \/ DeleteImage(AdminOnly)

\* an administrator uploads and deletes; the administrator and a customer
\* list
SpecTrip == Init /\ [][NextTrip]_vars

\* the step is an administrator's list with no prefix that succeeded
AdminListAll ==
    /\ last'.op = "list" /\ last'.status = 200
    /\ last'.verified /\ Member(last'.claims, "Admins")
    /\ last'.req.prefix = <<>>

\* the images of a list response hold an entry with this key, size and type
Listed(images, key, size, content_type) ==
    \E i \in 1..Len(images) :
        /\ images[i].key = key
        /\ images[i].size = size
        /\ images[i].content_type = content_type

\* C17 as stated: an administrator's list with no prefix that follows an
\* administrator's upload holds an entry with the key, size and content
\* type the upload returned (every metadata read of the list succeeding).
C17_RoundTrip ==
    [][(/\ last.op = "upload" /\ last.status = 201
        /\ AdminListAll
        /\ last'.req.skip = {})
         => Listed(last'.body.images, last.body.key, last.body.size,
                   last.body.content_type)
      ]_vars

\* C17, amended: the object an upload returns is stored under its key with
\* the returned size and content type; a stored object changes only by an
\* upload that returns its key and goes only by a delete of its key; and an
\* administrator's successful list with no prefix holds, for every key
\* among the first max_keys keys of the bucket whose metadata could be
\* read, an entry with the stored size and content type.
C17_RoundTripWithinWindow ==
    [][/\ UploadDone =>
            /\ last'.body.key \in DOMAIN store'
            /\ store'[last'.body.key].size = last'.body.size
            /\ store'[last'.body.key].content_type = last'.body.content_type
       /\ \A k \in DOMAIN store :
            /\ k \notin DOMAIN store' =>
                  (last'.op = "delete" /\ last'.status = 200 /\ last'.req.key = k)
            /\ (k \in DOMAIN store' /\ store'[k] # store[k]) =>
                  (UploadDone /\ last'.body.key = k)
       /\ AdminListAll =>
            \A k \in DOMAIN store :
                (/\ In(k, ListObjectsV2(store, <<>>, last'.req.max_keys))
                 /\ k \notin last'.req.skip)
                  => Listed(last'.body.images, k, store[k].size,
                            store[k].content_type)
      ]_vars

\* an administrator's list of the whole bucket returned both stored images,
\* a JPEG and a PNG
C17_Witness ==
    /\ last.op = "list" /\ last.status = 200
    /\ Member(last.claims, "Admins")
    /\ last.req.prefix = <<>>
    /\ last.body.count = 2
    /\ \A k \in DOMAIN store :
          Listed(last.body.images, k, store[k].size, store[k].content_type)
    /\ \E k \in DOMAIN store : store[k].content_type = "image/png"
    /\ \E k \in DOMAIN store : store[k].content_type = "image/jpeg"


\* the step is an administrator's delete
AdminDelete ==
    /\ last'.op = "delete"
    /\ last'.verified /\ Member(last'.claims, "Admins")

\* the keys a list response returned
ListedKeys(images) == {images[i].key : i \in 1..Len(images)}

\* C18: an administrator's delete succeeds exactly when the storage call
\* reports no error, whether or not the object existed, and the key is then
\* gone from the bucket; a key enters the bucket only by an upload that
\* returns it; and a list, by any caller, returns only keys of the bucket:
\* a deleted key is returned by no later list unless an upload stored it
\* again.
C18_DeletedStaysGone ==
    [][/\ AdminDelete =>
            /\ last'.status = (IF last'.req.delOk THEN 200 ELSE 500)
            /\ last'.status = 200 =>
                  /\ last'.req.key \notin DOMAIN store'
                  /\ \A k \in DOMAIN store \ {last'.req.key} :
                        k \in DOMAIN store' /\ store'[k] = store[k]
            /\ last'.status = 500 => store' = store
       /\ \A k \in DOMAIN store' \ DOMAIN store :
            last'.op = "upload" /\ last'.status = 201 /\ last'.body.key = k
       /\ (last'.op = "list" /\ last'.status = 200) =>
            /\ store' = store
            /\ ListedKeys(last'.body.images) \subseteq DOMAIN store
      ]_vars

\* an administrator deleted one of two stored images: it is gone, the other
\* is still there
C18_Witness ==
    /\ last.op = "delete" /\ last.status = 200
    /\ last.req.key # AbsentKey
    /\ last.req.key \notin DOMAIN store
    /\ Cardinality(DOMAIN store) = 1


\* ------------------------------------------------------- profile updates

ValidPhone == <<"+", "1", "2", "3", "4", "5", "6", "7">>

\* a customer created without a phone number, still to log in
NewCustomer ==
    [Account("c1@x", "Ann", None, "T1", "FORCE_CHANGE_PASSWORD", {"Customers"})
        EXCEPT !.customer_id = SubOf(2)]

InitUpdate ==
    /\ jwks = EmptyCache
    /\ store = <<>>
    /\ clock = [day |-> 1, sec |-> 0]
    /\ users \in {<<AdminAccount>>, <<AdminAccount, NewCustomer>>}
    /\ procs = <<>>
    /\ hide_users = FALSE
    /\ last = NoResp

UpdateFaults == {NoFault, [at |-> "admin_enable_user", code |-> "InternalErrorException"]}

\* the request bodies of PATCH /customers/{id}: each field absent or given
UpdateNames == {NotGiven, Given("Bob")}
UpdatePhones == {NotGiven, Given(NoPlusPhone), Given(<<" ">> \o ValidPhone)}
UpdateEnabled == {NotGiven, Given(FALSE), Given(TRUE)}

NextUpdate ==
    UpdateCustomer(AdminOnly, UpdateNames, UpdatePhones, UpdateEnabled, UpdateFaults)

\* PATCH /customers/{id} over a pool with and without the customer
SpecUpdate == InitUpdate /\ [][NextUpdate]_vars

\* the step is an administrator's update of the account with id SubOf(i)
UpdateOf(i) ==
    /\ last'.op = "update_customer"
    /\ last'.verified /\ Member(last'.claims, "Admins")
    /\ last'.req.customer_id = SubOf(i)

\* the account with its name, phone number and enabled flag replaced by the
\* values the request gave
WithGiven(user, req) ==
    [user EXCEPT
        !.name = IF req.name.given THEN req.name.value ELSE @,
        !.phone = IF req.phone_number.given THEN Strip(req.phone_number.value)
                  ELSE @,
        !.enabled = IF req.enabled.given THEN req.enabled.value ELSE @]

\* C19 as stated: a successful update changes exactly the given fields of
\* the account, and an update of an unknown id fails with 404 and changes
\* nothing.
C19_ExactlyGiven ==
    [][\A i \in 1..MaxUsers :
          (UpdateOf(i) /\ last'.req.fault = NoFault) =>
              IF i <= Len(users)
              THEN last'.status = 200 =>
                      users' = [users EXCEPT ![i] = WithGiven(@, last'.req)]
              ELSE last'.status = 404 /\ users' = users
      ]_vars

\* C19, amended: a successful update changes the given fields of the
\* account and, when a phone number is given, marks the number verified;
\* whatever the outcome, no other account and none of login name, password,
\* status, groups and customer id of the account changes; an update of an
\* unknown id changes nothing and fails with 404, or with 400 when it gives
\* a malformed phone number.
C19_GivenAndVerified ==
    [][\A i \in 1..MaxUsers :
          UpdateOf(i) =>
              /\ Len(users') = Len(users)
              /\ \A j \in 1..Len(users) :
                    /\ j # i => users'[j] = users[j]
                    /\ users'[j].Username = users[j].Username
                    /\ users'[j].password = users[j].password
                    /\ users'[j].status = users[j].status
                    /\ users'[j].groups = users[j].groups
                    /\ users'[j].customer_id = users[j].customer_id
              /\ last'.req.fault = NoFault =>
                    IF i <= Len(users)
                    THEN last'.status = 200 =>
                            users' = [users EXCEPT ![i] =
                                [WithGiven(@, last'.req) EXCEPT
                                    !.phone_verified =
                                        IF last'.req.phone_number.given
                                        THEN TRUE ELSE @]]
                    ELSE /\ users' = users
                         /\ last'.status =
                               IF /\ last'.req.phone_number.given
                                  /\ update_phone_error(
                                        Strip(last'.req.phone_number.value)) # ""
                               THEN 400 ELSE 404
      ]_vars

\* the customer was renamed and disabled by an update that gave no phone
\* number: the number set by an earlier update is still there
C19_Witness ==
    /\ last.op = "update_customer" /\ last.status = 200
    /\ last.req.customer_id = SubOf(2)
    /\ last.req.name = Given("Bob")
    /\ ~last.req.phone_number.given
    /\ last.req.enabled = Given(FALSE)
    /\ Len(users) = 2
    /\ users[2].name = "Bob"
    /\ users[2].phone = ValidPhone
    /\ ~users[2].enabled
    /\ users[2].password = "T1"


\* ------------------------------------------------ provider error codes

\* error codes of the identity provider; "" is a call the provider answers
\* by its own rules
ProviderCodes ==
    {"", "NotAuthorizedException", "InvalidPasswordException",
     "UserNotFoundException", "LimitExceededException",
     "TooManyRequestsException", "InvalidParameterException",
     "CodeMismatchException", "ExpiredCodeException",
     "UserNotConfirmedException", "PasswordResetRequiredException",
     "InternalErrorException"}

NextErr ==
    \/ ChangePassword(ProviderCodes)
    \/ ForgotPasswordOn(ProviderCodes)
    \/ ResetPassword(ProviderCodes)
    \/ CompleteNewPasswordOn(ProviderCodes)

InitErr ==
    /\ jwks = EmptyCache
    /\ store = <<>>
    /\ clock = [day |-> 1, sec |-> 0]
    /\ users = <<AdminAccount, LegacyAccount>>
    /\ procs = <<>>
    /\ hide_users = FALSE
    /\ last = NoResp

\* the four password operations under every provider error
SpecErr == InitErr /\ [][NextErr]_vars

PasswordOps ==
    {"change_password", "forgot_password", "reset_password",
     "complete_new_password"}

\* the provider's codes for a caller going over a request or attempt limit
ThrottlingCodes == {"LimitExceededException", "TooManyRequestsException"}

\* C20: in change_password, forgot_password, reset_password and
\* complete_new_password every provider error is answered with one status
\* of 400, 401, 429 and 500, and provider throttling is answered with 429.
C20_ErrorTaxonomy ==
    (last.op \in PasswordOps /\ last.req.err # "") =>
        /\ last.status \in {400, 401, 429, 500}
        /\ last.req.err \in ThrottlingCodes => last.status = 429

\* change_password answered the provider's TooManyRequestsException with 500
C20_ThrottledAs500 ==
    /\ last.op = "change_password"
    /\ last.req.err = "TooManyRequestsException"
    /\ last.status = 500


\* ------------------------------------------------- login and first login

\* a customer who has not yet completed the first login
PendingAccount ==
    [Account("c1@x", "Cus", None, "T1", "FORCE_CHANGE_PASSWORD", {"Customers"})
        EXCEPT !.customer_id = SubOf(2)]

\* a confirmed customer an administrator has disabled
DisabledAccount ==
    [Account("old@x", "Old", None, "U1", "CONFIRMED", {"Customers"})
        EXCEPT !.customer_id = SubOf(3), !.enabled = FALSE]

InitLogin ==
    /\ jwks = EmptyCache
    /\ store = <<>>
    /\ clock = [day |-> 1, sec |-> 0]
    /\ users = <<AdminAccount, PendingAccount, DisabledAccount>>
    /\ procs = <<>>
    /\ hide_users \in BOOLEAN
    /\ last = NoResp

NextLogin ==
    \/ Login
    \/ CompleteNewPassword
    \/ ResendWelcome(AdminOnly, {"T2"}, {NoFault})

SpecLogin == InitLogin /\ [][NextLogin]_vars

\* the accounts whose login name and current password the last login carried
ValidCredentials ==
    {i \in 1..Len(users) : /\ users[i].Username = last.req.username
                           /\ users[i].password = last.req.password}

\* the body of the last response is a full set of session tokens
TokensReturned ==
    /\ last.status = 200
    /\ last.body.access_token # ""
    /\ last.body.id_token # ""
    /\ last.body.refresh_token # ""
    /\ last.body.token_type # ""
    /\ last.body.expires_in > 0

GetCurrentUserInfo(T) ==
    \E tok \in T, fetchOk \in BOOLEAN :
        LET v == get_current_user(tok, jwks, fetchOk)
            req == [fetchOk |-> fetchOk,
                    fetched |-> tok.form = "jwt" /\ GetJwks(jwks, fetchOk).fetched]
        IN /\ jwks' = v.jwks
           /\ last' = Resp("me", v.status, v.detail, v, {}, req,
                           IF v.ok THEN [username |-> v.claims.username,
                                         sub |-> v.claims.sub]
                           ELSE NoBody)
           /\ UNCHANGED <<store, clock, users, procs, hide_users>>

NextCache ==
    \/ GetCurrentUserInfo(Tokens)
    \/ UploadImage(AdminOnly, {SmallJpeg}, {None})
    \/ DeleteImage(AdminOnly)
    \/ Tick

SpecCache == Init /\ [][NextCache]_vars

LoadedCache == [loaded |-> TRUE, keys |-> KeySet]

\* one step of the process as the cache sees it
CacheStep ==
    /\ jwks.loaded => jwks' = jwks
    /\ jwks' # jwks => jwks' = LoadedCache
    /\ (last'.op = "me" /\ clock' = clock) =>
          /\ last'.req.fetched => ~jwks.loaded
          /\ (last'.req.fetched /\ ~last'.req.fetchOk) => jwks' = EmptyCache
          /\ (jwks' # jwks) => (last'.req.fetched /\ last'.req.fetchOk)
          /\ UNCHANGED <<store, clock, users, procs, hide_users>>

\* C22: the key-set cache is empty at start and until the first successful
\* fetch, a failed fetch leaves it empty, once it holds a key set its content
\* never changes and no further fetch is made, and a verification changes
\* nothing but this cache.
C22_CacheLazyOnce == jwks = EmptyCache /\ [][CacheStep]_vars

\* a token was verified from the loaded cache while the jwks endpoint was down,
\* with objects in the store
C22_Witness ==
    /\ last.op = "me"
    /\ last.status = 200
    /\ jwks = LoadedCache
    /\ ~last.req.fetchOk
    /\ ~last.req.fetched
    /\ store # <<>>


\* ------------------------------------------------------ size of a listing

\* C23: for every caller role, a list request returns at most max_keys images.
C23_AtMostMaxKeys ==
    (last.op = "list" /\ last.status = 200) =>
        Len(last.body.images) <= last.req.max_keys

\* a customer asked for one image and received two: its own and a general one
C23_TwicePerCustomer ==
    /\ last.op = "list"
    /\ last.status = 200
    /\ get_user_role(last.claims) = "customer"
    /\ last.req.max_keys = 1
    /\ Len(last.body.images) = 2


\* ------------------------------------------------- the role-assumption helper

MaxAssumers == 2

Min(a, b) == IF a <= b THEN a ELSE b
Max(a, b) == IF a >= b THEN a ELSE b

\* faulty variant: only the lower limit is applied
clamp_duration_floor_only(duration_seconds) == Max(900, duration_seconds)

\* RoleAssumer.__init__: max(900, min(43200, duration_seconds))
clamp_duration(duration_seconds) == Max(900, Min(43200, duration_seconds))

\* the RoleAssumer object after construction
RoleAssumer(duration_seconds, external_id, mfa_serial, mfa_token) ==
    [duration_seconds |-> clamp_duration(duration_seconds),
     external_id |-> external_id, mfa_serial |-> mfa_serial,
     mfa_token |-> mfa_token]

\* the keyword arguments assume_role passes to sts.assume_role
assume_role_params(self) ==
    [DurationSeconds |-> self.duration_seconds,
     ExternalId |-> self.external_id,
     SerialNumber |-> IF self.mfa_serial # None /\ self.mfa_token # None
                      THEN self.mfa_serial ELSE None,
     TokenCode |-> IF self.mfa_serial # None /\ self.mfa_token # None
                   THEN self.mfa_token ELSE None]

Durations == {-5, 100, 899, 900, 3600, 43200, 43201, 999999}

\* external id, MFA serial, MFA token code
AssumeOptions ==
    { <<None, None, None>>, <<<<"ext">>, None, None>>,
      <<None, <<"mfa">>, None>>, <<None, <<"mfa">>, <<"123456">>>> }

InitAssume ==
    /\ jwks = EmptyCache
    /\ store = <<>>
    /\ clock = [day |-> 1, sec |-> 0]
    /\ users = <<>>
    /\ procs = <<>>
    /\ hide_users = FALSE
    /\ last = NoResp

\* RoleAssumer(role_arn, duration_seconds=..., ...)
NewRoleAssumer ==
    \E d \in Durations, o \in AssumeOptions :
        /\ Len(procs) < MaxAssumers
        /\ procs' = Append(procs, RoleAssumer(d, o[1], o[2], o[3]))
        /\ last' = Resp("RoleAssumer", 0, "", NoCaller, {},
                        [duration_seconds |-> d], NoBody)
        /\ UNCHANGED <<jwks, store, clock, users, hide_users>>

\* RoleAssumer.assume_role: the credentials of the provider, or its error raised
AssumeRole ==
    \E i \in 1..Len(procs), stsOk \in BOOLEAN :
        /\ last' = Resp("assume_role", IF stsOk THEN 200 ELSE 500,
                        IF stsOk THEN "" ELSE "ClientError", NoCaller,
                        {"assume_role"},
                        [assumer |-> i, params |-> assume_role_params(procs[i])],
                        IF stsOk THEN [AccessKeyId |-> "key", SessionToken |-> "tok"]
                        ELSE NoBody)
        /\ UNCHANGED <<jwks, store, clock, users, procs, hide_users>>

NextAssume == NewRoleAssumer \/ AssumeRole

SpecAssume == InitAssume /\ [][NextAssume]_vars

\* the clamped value the statement prescribes for a requested duration
Clamped(d) == IF d < 900 THEN 900 ELSE IF d > 43200 THEN 43200 ELSE d

\* C24: a requested duration below 900 becomes 900, one above 43200 becomes
\* 43200, one inside the range is kept, and the assume-role call is made with
\* exactly the clamped value of the helper that makes it.
C24_DurationClamped ==
    [][/\ last'.op = "RoleAssumer" =>
            /\ Len(procs') = Len(procs) + 1
            /\ Last(procs').duration_seconds = Clamped(last'.req.duration_seconds)
       /\ last'.op = "assume_role" =>
            /\ last'.req.params.DurationSeconds
                   = procs[last'.req.assumer].duration_seconds
            /\ last'.req.params.DurationSeconds \in 900..43200
       /\ \A i \in 1..Len(procs) : procs'[i] = procs[i]]_vars

\* a helper asked for 999999 seconds has called assume_role with 43200
C24_Witness ==
    /\ last.op = "assume_role"
    /\ last.status = 200
    /\ last.req.params.DurationSeconds = 43200
    /\ procs[last.req.assumer].duration_seconds = 43200


\* ------------------------------------------------- the first-login lifecycle

\* the accounts the next response's request names
Named == {i \in 1..Len(users) : users[i].Username = last'.req.username}

\* the step is a complete-new-password request the provider answered
FirstLoginStep == last'.op = "complete_new_password" /\ last'.req.err = ""

\* the step returned session tokens
TokensNext ==
    /\ last'.status = 200
    /\ last'.body.access_token # ""
    /\ last'.body.refresh_token # ""

\* a successful first login: from pending with the temporary password to
\* confirmed with the new one
Completed(i) ==
    /\ users[i].status = "FORCE_CHANGE_PASSWORD"
    /\ users[i].password = last'.req.temporary_password
    /\ users'[i].status = "CONFIRMED"
    /\ users'[i].password = last'.req.new_password
    /\ \A j \in 1..Len(users) \ {i} : users'[j] = users[j]

\* tokens only from the pending state with the temporary password
TokensOnlyWhenPending ==
    (last'.op = "complete_new_password" /\ last'.status = 200) =>
        /\ TokensNext
        /\ Len(users') = Len(users)
        /\ \E i \in Named : Completed(i)

\* no tokens from a login while the first login is pending, and the pending
\* state is left only by a successful first login
NoLoginWhilePending ==
    /\ (last'.op = "login" /\ last'.status = 200) =>
           \A i \in Named : users[i].status # "FORCE_CHANGE_PASSWORD"
    /\ \A i \in 1..Len(users) :
           (users[i].status = "FORCE_CHANGE_PASSWORD"
                /\ users'[i].status # "FORCE_CHANGE_PASSWORD")
           => (last'.op = "complete_new_password" /\ last'.status = 200)

main_upload_image(tok, fetchOk, file, putOk) ==
    LET v == get_current_user(tok, jwks, fetchOk)
        req == [file |-> file, customer_id |-> None]
    IN IF ~v.ok
       THEN [store |-> store, jwks |-> v.jwks,
             resp |-> Resp("upload", v.status, v.detail, v, {}, req, NoBody)]
       ELSE LET r == s3_upload_image(store, file, None, v.claims.username,
                                     clock, putOk)
            IN [store |-> r.store, jwks |-> v.jwks,
                resp |-> Resp("upload", r.status, r.detail, v, r.calls, req, r.body)]

\* main.py list_images: any verified caller; s3_service.list_images(prefix,
\* max_keys)
main_list_images(tok, fetchOk, prefix, max_keys, listOk, skip) ==
    LET v == get_current_user(tok, jwks, fetchOk)
        req == [prefix |-> prefix, max_keys |-> max_keys, skip |-> skip]
        images == s3_list_images(store, prefix, max_keys, skip)
    IN IF ~v.ok
       THEN [jwks |-> v.jwks,
             resp |-> Resp("list", v.status, v.detail, v, {}, req, NoBody)]
       ELSE IF ~listOk
       THEN [jwks |-> v.jwks,
             resp |-> Resp("list", 500, "Failed to list images", v,
                           {"list_objects_v2"}, req, NoBody)]
       ELSE [jwks |-> v.jwks,
             resp |-> Resp("list", 200, "", v, {"list_objects_v2"}, req,
                           [count |-> Len(images), images |-> images])]

\* main.py delete_image: any verified caller; s3_service.delete_image(key)
main_delete_image(tok, fetchOk, key, delOk) ==
    LET v == get_current_user(tok, jwks, fetchOk)
        req == [key |-> key, delOk |-> delOk]
    IN IF ~v.ok
       THEN [store |-> store, jwks |-> v.jwks,
             resp |-> Resp("delete", v.status, v.detail, v, {}, req, NoBody)]
       ELSE IF ~delOk
       THEN [store |-> store, jwks |-> v.jwks,
             resp |-> Resp("delete", 500, "Failed to delete image", v,
                           {"delete_object"}, req, NoBody)]
       ELSE [store |-> s3_delete_image(store, key), jwks |-> v.jwks,
             resp |-> Resp("delete", 200, "", v, {"delete_object"}, req,
                           [success |-> TRUE])]

\* the bucket holds an image of customer 12
InitMain ==
    /\ jwks = EmptyCache
    /\ store = s3_upload_image(<<>>, SmallJpeg, <<"1", "2">>, "user",
                               [day |-> 1, sec |-> 0], TRUE).store
    /\ clock = [day |-> 1, sec |-> 0]
    /\ users = <<AdminAccount>>
    /\ procs = <<>>
    /\ hide_users = FALSE
    /\ last = NoResp

MainUploadImage(T, F) ==
    \E tok \in T, fetchOk \in FetchOutcomes, file \in F, putOk \in BOOLEAN :
        LET r == main_upload_image(tok, fetchOk, file, putOk)
        IN /\ Cardinality(DOMAIN r.store) <= MaxObjects
           /\ store' = r.store
           /\ jwks' = r.jwks
           /\ last' = r.resp
           /\ UNCHANGED <<clock, users, procs, hide_users>>

MainListImages(T, P) ==
    \E tok \in T, fetchOk \in FetchOutcomes, prefix \in P,
       max_keys \in 1..MaxObjects, listOk \in BOOLEAN :
        LET r == main_list_images(tok, fetchOk, prefix, max_keys, listOk, {})
        IN /\ jwks' = r.jwks
           /\ last' = r.resp
           /\ UNCHANGED <<store, clock, users, procs, hide_users>>

MainDeleteImage(T) ==
    \E tok \in T, fetchOk \in FetchOutcomes,
       key \in DOMAIN store \cup {AbsentKey}, delOk \in BOOLEAN :
        LET r == main_delete_image(tok, fetchOk, key, delOk)
        IN /\ store' = r.store
           /\ jwks' = r.jwks
           /\ last' = r.resp
           /\ UNCHANGED <<clock, users, procs, hide_users>>

NextMain ==
    \/ MainUploadImage(ImgTokens, {SmallJpeg})
    \/ MainListImages(ImgTokens, {<<>>, <<"general", "/">>})
    \/ MainDeleteImage(ImgTokens)

SpecMain == InitMain /\ [][NextMain]_vars

\* C26: in the application that is served, a verified caller without the
\* "Admins" group cannot upload or delete, and a caller in the customer role
\* is listed only keys under its own customers/{id}/ prefix or general/.
C26_ServedAppGate ==
    (last.op \in ImageOps /\ last.verified) =>
        /\ (last.op \in {"upload", "delete"} /\ ~Member(last.claims, "Admins"))
              => (last.status = 403 /\ last.calls = {})
        /\ CustomerListed =>
              \A i \in 1..Len(last.body.images) :
                  InScope(last.body.images[i].key,
                          IF last.claims.cid # None THEN last.claims.cid
                          ELSE last.claims.sub)

\* customer 1 deleted the image of customer 12
C26_CustomerDeletedOthers ==
    /\ last.op = "delete" /\ last.verified /\ last.claims = Cust1Claims
    /\ last.status = 200
    /\ IsPrefix(<<"customers", "/", "1", "2", "/">>, last.req.key)
    /\ last.req.key \notin DOMAIN store

\* customer 1 was listed the image of customer 12
C26_CustomerListedOthers ==
    /\ CustomerListed /\ last.claims = Cust1Claims
    /\ \E i \in 1..Len(last.body.images) :
           IsPrefix(<<"customers", "/", "1", "2", "/">>, last.body.images[i].key)


\* ------------------------------------------------- resend_welcome on error

\* C27: whenever resend_welcome fails, for any reason including the email
\* provider rejecting the notification, every account keeps the temporary
\* password it had before the call.
C27_UnchangedOnError ==
    [][(last'.op = "resend_welcome" /\ last'.status # 200) =>
          \A i \in 1..Len(users) : users'[i].password = users[i].password]_vars

\* a resend failed at the email provider and the account holds a password
\* that was neither mailed nor returned
C27_UndeliveredPassword ==
    /\ last.op = "resend_welcome"
    /\ last.status = 500
    /\ last.req.mail = "rejected"
    /\ "send_email" \in last.calls
    /\ last.mail = NoMail
    /\ last.body = NoBody
    /\ users[2].password # LegacyAccount.password


\* ------------------------------------------------ create_customer on error

\* C28: whenever create_customer returns an error, the directory is as it was
\* before the call (no account with that email is left behind), and every
\* account a create_customer call leaves in the directory is a member of the
\* customer group.
C28_AllOrNothing ==
    [][(last'.op = "create_customer" /\ last'.verified
            /\ Member(last'.claims, "Admins")) =>
          /\ last'.status \notin {200, 201} => users' = users
          /\ \A i \in (Len(users) + 1)..Len(users') :
                 "Customers" \in users'[i].groups]_vars

\* a create_customer call failed with 500 and left an account with the
\* request's email that is in no group
C28_OrphanAccount ==
    /\ last.op = "create_customer"
    /\ last.status = 500
    /\ \E i \in 1..Len(users) :
           /\ users[i].Username = last.req.email
           /\ users[i].groups = {}


\* ------------------------------------------- the directory and other groups

DirectoryOps == {"get_customer", "update_customer", "resend_welcome"}

\* the step is an administrator's get, update or resend_welcome for the id of
\* account i, which is not a member of the customer group
OutsiderStep(i) ==
    /\ last'.op \in DirectoryOps
    /\ last'.verified /\ Member(last'.claims, "Admins")
    /\ last'.req.customer_id = SubOf(i)
    /\ i <= Len(users)
    /\ "Customers" \notin users[i].groups

\* C29: get, update and resend_welcome for the id of an account outside the
\* customer group fail with NotFound and change nothing.
C29_CustomersOnly ==
    [][\A i \in 1..MaxUsers :
          OutsiderStep(i) => (last'.status = 404 /\ users' = users)]_vars

\* an update through the customer directory has disabled the administrator
C29_AdminDisabled ==
    /\ last.op = "update_customer"
    /\ last.status = 200
    /\ last.req.customer_id = SubOf(1)
    /\ users[1].groups = {"Admins"}
    /\ ~users[1].enabled


\* ------------------------------------------------- disabling and sessions

MaxSessions == 2

\* a confirmed customer who has an image in the bucket
ActiveCustomer ==
    [Account("c1@x", "Cus", None, "U1", "CONFIRMED", {"Customers"})
        EXCEPT !.customer_id = SubOf(2)]

\* the token the provider issues to account i: its sub, groups and customer id
IssuedToken(us, i) ==
    GoodToken(Claims(Groups(IF "Admins" \in us[i].groups THEN <<"Admins">>
                            ELSE IF "Customers" \in us[i].groups
                            THEN <<"Customers">> ELSE <<>>),
                     us[i].customer_id, SubOf(i)))

\* procs: the session tokens the provider has issued and clients still hold
InitDisable ==
    /\ jwks = EmptyCache
    /\ store = s3_upload_image(<<>>, SmallJpeg, SubOf(2), "user",
                               [day |-> 1, sec |-> 0], TRUE).store
    /\ clock = [day |-> 1, sec |-> 0]
    /\ users = <<AdminAccount, ActiveCustomer>>
    /\ procs = <<>>
    /\ hide_users = FALSE
    /\ last = NoResp

\* routers/auth.py login; the client keeps the tokens of a successful login
LoginSession ==
    \E username \in {"c1@x"}, password \in {"U1", "wrong"} :
        LET out == authenticate_user(users, username, password, hide_users, "")
        IN /\ last' = Open("login", [username |-> username, password |-> password,
                                     err |-> ""], out)
           /\ IF out.status = 200
              THEN /\ Len(procs) < MaxSessions
                   /\ procs' = Append(procs, IssuedToken(users, Lookup(users, username)))
              ELSE procs' = procs
           /\ UNCHANGED <<jwks, store, clock, users, hide_users>>

\* the lifetime of a held token runs out
ExpireToken ==
    \E i \in 1..Len(procs) :
        /\ ~procs[i].expired
        /\ procs' = [procs EXCEPT ![i].expired = TRUE]
        /\ UNCHANGED <<jwks, store, clock, users, hide_users, last>>

HeldTokens == {procs[i] : i \in 1..Len(procs)}

NextDisable ==
    \/ LoginSession
    \/ ExpireToken
    \/ ListImages(HeldTokens, {<<>>})
    \/ UpdateCustomer(AdminOnly, {NotGiven}, {NotGiven},
                      {Given(FALSE), Given(TRUE)}, {NoFault})

SpecDisable == InitDisable /\ [][NextDisable]_vars

\* the accounts whose customer id the last caller carries
CallerAccounts ==
    {i \in 1..Len(users) : SubOf(i) = get_customer_id(last.claims)}

\* C30 as stated: once a customer is disabled, no image list request made on
\* its behalf is authorized, whenever its token was issued, until the account
\* is enabled again.
C30_DisableRevokes ==
    (last.op = "list" /\ last.status = 200) =>
        \A i \in CallerAccounts : users[i].enabled

\* C30 amended: a disabled customer obtains no new session (authenticate fails
\* with 401 and issues no token) until the account is enabled again, while a
\* list request carrying a token issued before and not yet expired is verified
\* and served whatever the enabled flag says; an expired token is refused.
C30_DisableStopsLogin ==
    [][/\ (last'.op = "login" /\ Len(procs') >= Len(procs)
             /\ \A k \in 1..Len(procs) : procs'[k] = procs[k]) =>
            \A i \in 1..Len(users) :
                (users[i].Username = last'.req.username /\ ~users[i].enabled)
                => (last'.status = 401 /\ procs' = procs)
       /\ (last'.op = "list" /\ procs' = procs /\ users' = users) =>
            /\ last'.verified => last'.status \in {200, 500}
            /\ last'.status = 200 => \E t \in HeldTokens : ~t.expired
       /\ Len(procs') > Len(procs) =>
            /\ last'.op = "login" /\ last'.status = 200
            /\ \E i \in 1..Len(users) :
                   /\ users[i].Username = last'.req.username
                   /\ users[i].enabled
                   /\ Last(procs') = IssuedToken(users, i)]_vars

\* the disabled customer was refused a login with the right password while a
\* token issued earlier is still held and valid
C30_Witness ==
    /\ last.op = "login"
    /\ last.status = 401
    /\ last.req.password = users[2].password
    /\ ~users[2].enabled
    /\ \E t \in HeldTokens : ~t.expired /\ t.claims.sub = SubOf(2)

====
